---------------------------- MODULE Spec2Model ----------------------------
(***************************************************************************)
(* A model of the Pinot segment reader (pinot-segment) and of its          *)
(* DataFusion adapter (datafusion-pinot).                                  *)
(*                                                                         *)
(* The module holds one specification per component:                       *)
(*   SpecBits     FixedBitWidthReader (forward_index/fixed_bit.rs)         *)
(*   SpecVar      VarByteChunkReader (forward_index/var_byte.rs)           *)
(*   SpecFind     VarByteChunkReader::find_chunk_metadata                  *)
(*   SpecSeg      SegmentReader (segment_reader.rs) and Dictionary         *)
(*   SpecDict     DictionaryReader (forward_index/dictionary.rs)           *)
(*   SpecScan     PinotTable, PinotExec, PinotStream (table.rs, exec.rs)   *)
(*   SpecProps    IndexMap and SegmentMetadata (index_map.rs, metadata.rs) *)
(*   SpecCatalog  FileSystemMetadataProvider and PinotSchemaProvider       *)
(*                (metadata_provider.rs, catalog.rs)                       *)
(*   SpecBuilder  PinotCatalogBuilder (catalog.rs)                         *)
(* Each specification draws the component's inputs in its initial states   *)
(* and then applies the component's operations; the variables of the other *)
(* components stay idle.                                                   *)
(***************************************************************************)
EXTENDS Integers, Sequences, FiniteSets, TLC

VARIABLES
    fb_src,      \* how the packed buffer was produced: "packed" | "raw" | "idle"
    fb_vals,     \* the values that were packed (fb_src = "packed")
    fb_buffer,   \* FixedBitWidthReader.buffer   (bytes after the magic marker)
    fb_bits,     \* FixedBitWidthReader.bits_per_value
    fb_num,      \* FixedBitWidthReader.num_values
    fb_call,     \* the last call made on the reader
    fb_ret       \* what that call returned

fbVars == <<fb_src, fb_vals, fb_buffer, fb_bits, fb_num, fb_call, fb_ret>>

VARIABLES
    overflow_checks,  \* the build: TRUE when integer overflow panics (debug)
    feature_lz4       \* the build: TRUE when the crate feature "lz4" is enabled

buildVars == <<overflow_checks, feature_lz4>>

VARIABLES
    vb_fix,      \* what the writer stored in the var-byte forward index
    vb_file,     \* the bytes of columns.psf
    vb_loc,      \* the forward index's IndexLocation and the column's total_docs
    vb_reader,   \* the result of VarByteChunkReader::read, NoRet before it
    vb_call,     \* the last call made on the reader
    vb_ret,      \* what that call returned
    vb_io        \* the chunks that call read and decompressed, in order

vbVars == <<vb_fix, vb_file, vb_loc, vb_reader, vb_call, vb_ret, vb_io>>

VARIABLES
    sr_fix,      \* what the segment writer stored for the column "a"
    sr_seg,      \* the opened SegmentReader: [metadata, index_map, file]
    sr_call,     \* the last typed read called on the segment
    sr_ret       \* what that call returned

srVars == <<sr_fix, sr_seg, sr_call, sr_ret>>

VARIABLES
    sc_paths,    \* the segment directories given to PinotTable::open_segments
    sc_table,    \* the result of open_segments, NoRet before it
    sc_exec,     \* the PinotExec that TableProvider::scan built, NoRet before it
    sc_part,     \* the partition given to execute, -1 before it
    sc_stream,   \* the result of execute: the PinotStream or the error
    sc_reads,    \* the columns execute read from the segment, in order
    sc_out       \* what the polls of the stream returned, in order

scVars == <<sc_paths, sc_table, sc_exec, sc_part, sc_stream, sc_reads, sc_out>>

VARIABLES
    pf_fix,      \* what the segment writer put in the properties file
    pf_content,  \* the text of the file (index_map, metadata.properties)
    pf_call,     \* the last parser called on the text
    pf_ret       \* what that call returned

pfVars == <<pf_fix, pf_content, pf_call, pf_ret>>

VARIABLES
    cat_dir,     \* the entries of the data directory, as read_dir yields them
    cat_call,    \* the last call made on the provider
    cat_ret      \* what that call returned

catVars == <<cat_dir, cat_call, cat_ret>>

VARIABLES
    bd_source,   \* PinotCatalogBuilder.source
    bd_calls,    \* the calls made on the builder so far, in order
    bd_ret       \* what build() returned, NoRet before it

bdVars == <<bd_source, bd_calls, bd_ret>>

vars == <<fbVars, buildVars, vbVars, srVars, scVars, pfVars, catVars, bdVars>>

\* what an action of one component leaves alone
BitsFrame == UNCHANGED <<buildVars, vbVars, srVars, scVars, pfVars, catVars, bdVars>>
VarFrame == UNCHANGED <<buildVars, fbVars, srVars, scVars, pfVars, catVars, bdVars>>
SegFrame == UNCHANGED <<buildVars, fbVars, vbVars, scVars, pfVars, catVars, bdVars>>
ScanFrame == UNCHANGED <<buildVars, fbVars, vbVars, srVars, pfVars, catVars, bdVars>>
PropsFrame == UNCHANGED <<buildVars, fbVars, vbVars, srVars, scVars, catVars, bdVars>>
CatalogFrame == UNCHANGED <<buildVars, fbVars, vbVars, srVars, scVars, pfVars, bdVars>>
BuilderFrame == UNCHANGED <<buildVars, fbVars, vbVars, srVars, scVars, pfVars, catVars>>

-----------------------------------------------------------------------------
(* Results.  A Rust Result is a record: Ok(v) or Err(kind).  A panic (index *)
(* out of bounds, arithmetic overflow in a checked build) is the kind       *)
(* "Panic".                                                                 *)

Ok(v) == [ok |-> TRUE, val |-> v]
Err(kind) == [ok |-> FALSE, err |-> kind]
NoCall == [op |-> "none"]
NoRet == [ok |-> FALSE, err |-> "none"]

-----------------------------------------------------------------------------
(* Integer helpers.                                                        *)

Pow2(n) == 2 ^ n
Shr(x, k) == x \div Pow2(k)
\* x << k on a u32: bits shifted past bit 31 are dropped (x < 2^31 here, so
\* for k <= 1 nothing but bit 31 could be dropped and x is kept whole)
Shl32(x, k) == (IF k <= 1 THEN x ELSE x % Pow2(32 - k)) * Pow2(k)
Min(a, b) == IF a <= b THEN a ELSE b
Max(a, b) == IF a >= b THEN a ELSE b

RECURSIVE BitAnd(_, _)
BitAnd(a, b) ==
    IF a = 0 \/ b = 0 THEN 0
    ELSE (a % 2) * (b % 2) + 2 * BitAnd(a \div 2, b \div 2)

\* a | b
BitOr(a, b) == a + b - BitAnd(a, b)

RECURSIVE SeqSum(_)
SeqSum(s) == IF s = <<>> THEN 0 ELSE Head(s) + SeqSum(Tail(s))

\* all sequences over S of length 0..n
SeqsUpTo(S, n) == UNION {[1..k -> S] : k \in 0..n}

-----------------------------------------------------------------------------
(* FixedBitWidthReader (pinot-segment/src/forward_index/fixed_bit.rs)      *)

MAGIC_MARKER_SIZE == 8

ByteMask_Unshifted(lead) == 255
\* let byte_mask = 0xFF >> bit_offset_in_first_byte;
ByteMask(lead) == Shr(255, lead)

\* the while loop of get_dict_id: whole bytes in the middle of the value
RECURSIVE MultiByteLoop(_, _, _, _)
MultiByteLoop(buffer, current_value, num_bits_left, byte_offset) ==
    IF num_bits_left > 8
    THEN IF byte_offset >= Len(buffer)
         THEN Err("InvalidFormat")
         ELSE MultiByteLoop(buffer,
                            BitOr(Shl32(current_value, 8), buffer[byte_offset + 1]),
                            num_bits_left - 8,
                            byte_offset + 1)
    ELSE Ok([current_value |-> current_value,
             num_bits_left |-> num_bits_left,
             byte_offset   |-> byte_offset])

\* FixedBitWidthReader::get_dict_id.  Byte k of the Rust buffer is buffer[k+1].
GetDictId(buffer, bits_per_value, num_values, doc_id) ==
    IF doc_id >= num_values THEN Err("InvalidFormat")
    ELSE
    LET bit_offset == doc_id * bits_per_value
        byte_offset == bit_offset \div 8
        bit_offset_in_first_byte == bit_offset % 8
    IN  IF byte_offset >= Len(buffer) THEN Err("InvalidFormat")
        ELSE
        LET current_value == BitAnd(buffer[byte_offset + 1],
                                    ByteMask(bit_offset_in_first_byte))
            num_bits_left == bits_per_value - (8 - bit_offset_in_first_byte)
        IN  IF num_bits_left <= 0
            THEN Ok(Shr(current_value, -num_bits_left))
            ELSE
            LET l == MultiByteLoop(buffer, current_value, num_bits_left,
                                   byte_offset + 1)
            IN  IF ~l.ok THEN l
                ELSE IF l.val.byte_offset >= Len(buffer)
                THEN Err("InvalidFormat")
                ELSE Ok(BitOr(Shl32(l.val.current_value, l.val.num_bits_left),
                              Shr(buffer[l.val.byte_offset + 1],
                                  8 - l.val.num_bits_left)))

RECURSIVE ReadAllFrom_StopAtFailure(_, _, _, _)
ReadAllFrom_StopAtFailure(buffer, bits_per_value, num_values, doc_id) ==
    IF doc_id >= num_values THEN Ok(<<>>)
    ELSE LET r == GetDictId(buffer, bits_per_value, num_values, doc_id)
         IN  IF ~r.ok THEN Ok(<<>>)
             ELSE LET rest == ReadAllFrom_StopAtFailure(buffer, bits_per_value,
                                                        num_values, doc_id + 1)
                  IN  Ok(<<r.val>> \o rest.val)
\* FixedBitWidthReader::read_all: the first failing index fails the call
RECURSIVE ReadAllFrom(_, _, _, _)
ReadAllFrom(buffer, bits_per_value, num_values, doc_id) ==
    IF doc_id >= num_values THEN Ok(<<>>)
    ELSE LET r == GetDictId(buffer, bits_per_value, num_values, doc_id)
         IN  IF ~r.ok THEN r
             ELSE LET rest == ReadAllFrom(buffer, bits_per_value, num_values,
                                          doc_id + 1)
                  IN  IF ~rest.ok THEN rest
                      ELSE Ok(<<r.val>> \o rest.val)

ReadAll(buffer, bits_per_value, num_values) ==
    ReadAllFrom(buffer, bits_per_value, num_values, 0)

(* The writer's side, as the unit tests lay the values out ("Packed as:    *)
(* 0101 1010 1111 0011 = 0x5A 0xF3"): the values' bits_per_value-bit       *)
(* binary numerals, most significant bit first, concatenated and padded    *)
(* with zero bits to a whole number of bytes.                              *)
PackedBit(vals, b, p) ==
    IF p >= Len(vals) * b THEN 0
    ELSE Shr(vals[(p \div b) + 1], b - 1 - (p % b)) % 2

RECURSIVE PackedByte(_, _, _, _)
PackedByte(vals, b, k, j) ==
    IF j = 8 THEN 0
    ELSE PackedBit(vals, b, 8 * k + j) * Pow2(7 - j) + PackedByte(vals, b, k, j + 1)

PackBits(vals, b) ==
    [k \in 1..((Len(vals) * b + 7) \div 8) |-> PackedByte(vals, b, k - 1, 0)]

\* bounds and sample inputs of SpecBits
MaxValues == 3
MaxBufLen == 3
BitWidths == 1..31
RawBytes == {85, 10, 243}         \* 0x55, 0x0A, 0xF3: the bytes of the unit tests
\* 0, the all-ones value (2^b - 1), the top bit alone, and 0101...
AllOnes(b) == 2 * (Pow2(b - 1) - 1) + 1
SampleVals(b) == {0, AllOnes(b), Pow2(b - 1), AllOnes(b) \div 3}

BitsInit ==
    /\ fb_bits \in BitWidths
    /\ \/ /\ fb_src = "packed"
          /\ fb_vals \in SeqsUpTo(SampleVals(fb_bits), MaxValues)
          /\ fb_buffer = PackBits(fb_vals, fb_bits)
          /\ fb_num = Len(fb_vals)
       \/ /\ fb_src = "raw"
          /\ fb_vals = <<>>
          /\ fb_buffer \in SeqsUpTo(RawBytes, MaxBufLen)
          /\ fb_num \in 0..MaxValues
    /\ fb_call = NoCall
    /\ fb_ret = NoRet

BitsIdle ==
    /\ fb_src = "idle" /\ fb_vals = <<>> /\ fb_buffer = <<>>
    /\ fb_bits = 0 /\ fb_num = 0 /\ fb_call = NoCall /\ fb_ret = NoRet

\* The reader is immutable: what a call returns does not depend on the calls
\* made before it, and a behaviour makes one call.
GetDictIdCall ==
    /\ fb_call = NoCall
    /\ \E doc_id \in 0..MaxValues :
        /\ fb_call' = [op |-> "get_dict_id", doc_id |-> doc_id]
        /\ fb_ret' = GetDictId(fb_buffer, fb_bits, fb_num, doc_id)
    /\ UNCHANGED <<fb_src, fb_vals, fb_buffer, fb_bits, fb_num>>
    /\ BitsFrame

ReadAllCall ==
    /\ fb_call = NoCall
    /\ fb_call' = [op |-> "read_all"]
    /\ fb_ret' = ReadAll(fb_buffer, fb_bits, fb_num)
    /\ UNCHANGED <<fb_src, fb_vals, fb_buffer, fb_bits, fb_num>>
    /\ BitsFrame


-----------------------------------------------------------------------------
(* Files.  columns.psf is a sequence of bytes; byte k of the file is       *)
(* file[k+1].  Every reader opens the file, seeks and calls read_exact,    *)
(* which fails with an I/O error (UnexpectedEof) when fewer than n bytes   *)
(* follow the position; reading 0 bytes always succeeds.                   *)

ReadExact(file, pos, n) ==
    IF n = 0 THEN Ok(<<>>)
    ELSE IF pos + n > Len(file) THEN Err("Io")
    ELSE Ok(SubSeq(file, pos + 1, pos + n))

\* i32::from_be_bytes
I32FromBe(b) ==
    (IF b[1] >= 128 THEN b[1] - 256 ELSE b[1]) * 16777216
        + b[2] * 65536 + b[3] * 256 + b[4]
\* u32::from_be_bytes (as usize); the model's lengths stay below 2^31
U32FromBe(b) == b[1] * 16777216 + b[2] * 65536 + b[3] * 256 + b[4]
\* u32::from_le_bytes
U32FromLe(b) == b[4] * 16777216 + b[3] * 65536 + b[2] * 256 + b[1]

\* to_be_bytes / to_le_bytes of a 32-bit integer (two's complement)
BeBytes32(v) ==
    <<(v \div 16777216) % 256, (v \div 65536) % 256, (v \div 256) % 256, v % 256>>
LeBytes32(v) ==
    <<v % 256, (v \div 256) % 256, (v \div 65536) % 256, (v \div 16777216) % 256>>

RECURSIVE Concat(_)
Concat(ss) == IF ss = <<>> THEN <<>> ELSE Head(ss) \o Concat(Tail(ss))

(* UTF-8.  String::from_utf8 accepts one-byte (0x00..0x7F) and two-byte    *)
(* (0xC2..0xDF, 0x80..0xBF) encodings and yields the code points; every    *)
(* other byte the model's inputs contain (0xFF, a lone continuation or     *)
(* lead byte) is invalid.  from_utf8_lossy never fails: each invalid byte  *)
(* becomes U+FFFD.  A string is the sequence of its code points.           *)
REPLACEMENT_CHARACTER == 65533

RECURSIVE Utf8Decode(_, _)
Utf8Decode(bytes, lossy) ==
    IF bytes = <<>> THEN Ok(<<>>)
    ELSE
    LET b1 == bytes[1]
        two == /\ b1 >= 194 /\ b1 <= 223 /\ Len(bytes) >= 2
               /\ bytes[2] >= 128 /\ bytes[2] <= 191
        used == IF two THEN 2 ELSE 1
        valid == b1 < 128 \/ two
        cp == IF b1 < 128 THEN b1
              ELSE IF two THEN (b1 - 192) * 64 + (bytes[2] - 128)
              ELSE REPLACEMENT_CHARACTER
    IN  IF ~valid /\ ~lossy THEN Err("Utf8Error")
        ELSE LET rest == Utf8Decode(SubSeq(bytes, used + 1, Len(bytes)), lossy)
             IN  IF ~rest.ok THEN rest ELSE Ok(<<cp>> \o rest.val)

FromUtf8(bytes) == Utf8Decode(bytes, FALSE)
FromUtf8Lossy(bytes) == Utf8Decode(bytes, TRUE).val

-----------------------------------------------------------------------------
(* DictionaryReader (pinot-segment/src/forward_index/dictionary.rs)        *)
(*                                                                         *)
(* An i32 entry is its integer.  An i64, f32 or f64 entry is represented   *)
(* by its bit pattern, the 8 (4) bytes in big-endian order, which is what  *)
(* from_be_bytes reinterprets.                                             *)

DataTypes == {"Int", "Long", "Float", "Double", "String", "Bytes", "Boolean"}

\* const MAGIC_MARKER: u64 = 0xDEADBEEFDEAFBEAD, as its big-endian bytes
MAGIC_MARKER == <<222, 173, 190, 239, 222, 175, 190, 173>>

\* the width of a fixed-width entry
EntryWidth(data_type) == IF data_type \in {"Int", "Float"} THEN 4 ELSE 8

\* the position of the first 0 byte, or the length: iter().position(|b| b == 0)
RECURSIVE NulPosition(_, _)
NulPosition(str_bytes, k) ==
    IF k >= Len(str_bytes) THEN Len(str_bytes)
    ELSE IF str_bytes[k + 1] = 0 THEN k
    ELSE NulPosition(str_bytes, k + 1)

\* one entry read at file position pos: Ok([value, pos]) or an error
DictionaryReadEntry(file, pos, data_type, length_of_each_entry) ==
    IF data_type \in {"Int", "Long", "Float", "Double"}
    THEN LET r == ReadExact(file, pos, EntryWidth(data_type))
         IN  IF ~r.ok THEN r
             ELSE Ok([value |-> IF data_type = "Int" THEN I32FromBe(r.val) ELSE r.val,
                      pos |-> pos + EntryWidth(data_type)])
    ELSE IF length_of_each_entry > 0
    THEN LET r == ReadExact(file, pos, length_of_each_entry)
         IN  IF ~r.ok THEN r
             ELSE LET s == FromUtf8(SubSeq(r.val, 1, NulPosition(r.val, 0)))
                  IN  IF ~s.ok THEN Err("Parse")
                      ELSE Ok([value |-> s.val, pos |-> pos + length_of_each_entry])
    ELSE LET l == ReadExact(file, pos, 4)
         IN  IF ~l.ok THEN l
             ELSE LET len == U32FromBe(l.val)
                      \* no file of the model holds 2^31 bytes
                      r == IF l.val[1] >= 128 THEN Err("Io")
                           ELSE ReadExact(file, pos + 4, len)
                  IN  IF ~r.ok THEN r
                      ELSE LET s == FromUtf8(r.val)
                           IN  IF ~s.ok THEN Err("Parse")
                               ELSE Ok([value |-> s.val, pos |-> pos + 4 + len])

RECURSIVE DictionaryReadEntries(_, _, _, _, _)
DictionaryReadEntries(file, pos, data_type, n, length_of_each_entry) ==
    IF n = 0 THEN Ok(<<>>)
    ELSE LET e == DictionaryReadEntry(file, pos, data_type, length_of_each_entry)
         IN  IF ~e.ok THEN e
             ELSE LET rest == DictionaryReadEntries(file, e.val.pos, data_type,
                                                    n - 1, length_of_each_entry)
                  IN  IF ~rest.ok THEN rest
                      ELSE Ok(<<e.val.value>> \o rest.val)

\* DictionaryReader::read dispatching on the data type before it looks at
\* the magic marker
DictionaryRead_DispatchFirst(file, offset, data_type, cardinality, length_of_each_entry) ==
    LET m == ReadExact(file, offset, 8)
    IN  IF ~m.ok THEN m
        ELSE IF data_type \in {"Bytes", "Boolean"} THEN Err("UnsupportedFeature")
        ELSE IF m.val # MAGIC_MARKER THEN Err("InvalidFormat")
        ELSE LET es == DictionaryReadEntries(file, offset + 8, data_type,
                                             cardinality, length_of_each_entry)
             IN  IF ~es.ok THEN es
                 ELSE Ok([variant |-> data_type, values |-> es.val])

\* DictionaryReader::read; the `_size` argument is not used by the code
DictionaryRead(file, offset, data_type, cardinality, length_of_each_entry) ==
    LET m == ReadExact(file, offset, 8)
    IN  IF ~m.ok THEN m
        ELSE IF m.val # MAGIC_MARKER THEN Err("InvalidFormat")
        ELSE IF data_type \in {"Bytes", "Boolean"} THEN Err("UnsupportedFeature")
        ELSE LET es == DictionaryReadEntries(file, offset + 8, data_type,
                                             cardinality, length_of_each_entry)
             IN  IF ~es.ok THEN es
                 ELSE Ok([variant |-> data_type, values |-> es.val])

None == [some |-> FALSE]
Some(v) == [some |-> TRUE, val |-> v]

DictGet_FromEnd(dictionary, variant, dict_id) ==
    IF dictionary.variant = variant /\ dict_id < Len(dictionary.values)
    THEN Some(dictionary.values[Len(dictionary.values) - dict_id])
    ELSE None
\* DictionaryReader::get_int / get_long / get_float / get_double / get_string
DictGet(dictionary, variant, dict_id) ==
    IF dictionary.variant = variant /\ dict_id < Len(dictionary.values)
    THEN Some(dictionary.values[dict_id + 1])
    ELSE None

\* FixedBitWidthReader::read
FixedBitRead(file, offset, size, bits_per_value, num_values) ==
    LET r == ReadExact(file, offset, size)
    IN  IF ~r.ok THEN r
        ELSE IF size >= MAGIC_MARKER_SIZE
        THEN Ok([buffer |-> SubSeq(r.val, MAGIC_MARKER_SIZE + 1, size),
                 bits_per_value |-> bits_per_value,
                 num_values |-> num_values])
        ELSE Err("InvalidFormat")

-----------------------------------------------------------------------------
(* VarByteChunkReader (pinot-segment/src/forward_index/var_byte.rs)        *)
(*                                                                         *)
(* Unsigned arithmetic.  A usize or u32 subtraction that would go below 0  *)
(* panics in a build with overflow checks and wraps around in a build      *)
(* without; the build is the variable overflow_checks.  WRAPPED stands for *)
(* every wrapped value (2^64 - d or 2^32 - d, d small) and for the u32     *)
(* values of 2^31 and more: it is larger than every length and offset of   *)
(* the model's files.  Allocating a vector of WRAPPED bytes panics         *)
(* (capacity overflow).                                                    *)

WRAPPED == 2147483647

USub(a, b, checks) ==
    IF a >= b THEN Ok(a - b)
    ELSE IF checks THEN Err("Panic") ELSE Ok(WRAPPED)

METADATA_ENTRY_SIZE == 8
PASS_THROUGH == 0
SNAPPY == 1
ZSTANDARD == 2
LZ4 == 3
LZ4_LENGTH_PREFIXED == 4

DEADBEEF == <<222, 173, 190, 239>>
SENTINEL_BYTES == <<255, 255, 255, 255>>       \* 0xFFFFFFFF, little-endian

\* u32::from_le_bytes(entry[0..4]) with the flag bit left in
EntryDocId_Unmasked(entry) ==
    IF entry[4] >= 128 THEN WRAPPED
    ELSE entry[4] * 16777216 + entry[3] * 65536 + entry[2] * 256 + entry[1]
\* u32::from_le_bytes(entry[0..4]) & 0x7FFFFFFF
EntryDocId(entry) ==
    (entry[4] % 128) * 16777216 + entry[3] * 65536 + entry[2] * 256 + entry[1]
\* (u32::from_le_bytes(entry[0..4]) & 0x80000000) == 0
EntryIsRegular(entry) == entry[4] < 128
\* u32::from_le_bytes(..) as usize, of a chunk offset or an in-chunk offset
U32LeAt(bytes, pos) ==
    IF bytes[pos + 4] >= 128 THEN WRAPPED
    ELSE U32FromLe(SubSeq(bytes, pos + 1, pos + 4))
\* next_chunk_offset == 0xFFFFFFFF
EntryIsSentinel(entry) == SubSeq(entry, 5, 8) = SENTINEL_BYTES

\* VarByteChunkReader::read
VarByteRead(file, offset, size, total_docs, checks) ==
    LET first_bytes == ReadExact(file, offset, 4)
    IN  IF ~first_bytes.ok THEN first_bytes
        ELSE
        LET has_magic == first_bytes.val = DEADBEEF
            rest_magic == IF has_magic THEN ReadExact(file, offset + 4, 4) ELSE Ok(<<>>)
            header_pos == IF has_magic THEN offset + 8 ELSE offset
        IN  IF ~rest_magic.ok THEN rest_magic
            ELSE
            LET header == ReadExact(file, header_pos, 16)
            IN  IF ~header.ok THEN header
                ELSE
                LET version == I32FromBe(SubSeq(header.val, 1, 4))
                    target == I32FromBe(SubSeq(header.val, 5, 8))
                    compression_type == I32FromBe(SubSeq(header.val, 9, 12))
                    chunks_start_offset == I32FromBe(SubSeq(header.val, 13, 16))
                    metadata_size == USub(chunks_start_offset, 16, checks)
                IN  IF version # 4 THEN Err("UnsupportedFeature")
                    ELSE IF ~metadata_size.ok THEN metadata_size
                    ELSE Ok([file |-> file,
                             base_offset |-> offset,
                             forward_index_size |-> size,
                             target_decompressed_chunk_size |-> target,
                             compression_type |-> compression_type,
                             metadata_offset |-> header_pos + 16,
                             metadata_size |-> metadata_size.val,
                             chunks_offset |-> offset + chunks_start_offset
                                                + (IF has_magic THEN 8 ELSE 0),
                             total_docs |-> total_docs])

\* the while loop of find_chunk_metadata
RECURSIVE FindChunkLoop(_, _, _, _)
FindChunkLoop(r, doc_id, low, high) ==
    IF low <= high
    THEN LET mid == (low + high) \div 2
             entry == ReadExact(r.file, r.metadata_offset + mid * METADATA_ENTRY_SIZE, 8)
         IN  IF ~entry.ok THEN entry
             ELSE IF EntryDocId(entry.val) < doc_id
                  THEN FindChunkLoop(r, doc_id, mid + 1, high)
             ELSE IF EntryDocId(entry.val) > doc_id
                  THEN FindChunkLoop(r, doc_id, low, mid - 1)
             ELSE Ok(mid)
    ELSE Ok(Max(low - 1, 0))

\* VarByteChunkReader::find_chunk_metadata: the index of the entry (the byte
\* position the code returns with it is that index times 8)
FindChunkMetadata(r, doc_id) ==
    FindChunkLoop(r, doc_id, 0, (r.metadata_size \div METADATA_ENTRY_SIZE) - 1)

(* LZ4 block decompression (the lz4 crate) for the blocks the model's      *)
(* files hold: one literal run.  The token's high nibble is the run's      *)
(* length n, or 15 with the next byte holding n - 15 (n < 270); the low    *)
(* nibble (match length) is 0; n literal bytes follow and end the block.   *)
(* The output must fit the expected size.                                  *)
Lz4BlockDecompress(compressed_bytes, decompressed_size) ==
    LET c == compressed_bytes
        short == Len(c) >= 1 /\ c[1] % 16 = 0 /\ c[1] \div 16 <= 14
        long == Len(c) >= 2 /\ c[1] = 240 /\ c[2] < 255
        n == IF short THEN c[1] \div 16 ELSE 15 + c[2]
        head == IF short THEN 1 ELSE 2
    IN  IF (short \/ long) /\ Len(c) = head + n /\ n <= decompressed_size
        THEN Ok(SubSeq(c, head + 1, Len(c)))
        ELSE Err("InvalidFormat")

\* decompress_chunk reporting the formats it does not decode as corrupt data
DecompressChunk_AsCorrupt(r, compressed_data, lz4_feature) ==
    IF r.compression_type = PASS_THROUGH THEN Ok(compressed_data)
    ELSE Err("InvalidFormat")

\* VarByteChunkReader::decompress_chunk
DecompressChunk(r, compressed_data, lz4_feature) ==
    IF r.compression_type = PASS_THROUGH THEN Ok(compressed_data)
    ELSE IF r.compression_type \in {LZ4, LZ4_LENGTH_PREFIXED}
    THEN IF ~lz4_feature THEN Err("UnsupportedFeature")
         ELSE IF r.compression_type = LZ4_LENGTH_PREFIXED
         THEN IF Len(compressed_data) < 4 THEN Err("InvalidFormat")
              ELSE Lz4BlockDecompress(SubSeq(compressed_data, 5, Len(compressed_data)),
                                      U32LeAt(compressed_data, 0))
         ELSE Lz4BlockDecompress(compressed_data, r.target_decompressed_chunk_size)
    ELSE Err("UnsupportedFeature")

\* A call's outcome together with the chunks it read from the file and
\* decompressed, in order (the metadata index of each)
WithIo(res, io) == [res |-> res, io |-> io]

\* the chunk of metadata entry entry_idx, read and decompressed:
\* chunk_limit - chunk_offset bytes at chunks_offset + chunk_offset
LoadChunk(r, entry_idx, chunk_limit, chunk_offset, checks, lz4_feature) ==
    LET chunk_size == USub(chunk_limit, chunk_offset, checks)
    IN  IF ~chunk_size.ok THEN WithIo(chunk_size, <<>>)
        ELSE IF chunk_size.val >= WRAPPED THEN WithIo(Err("Panic"), <<>>)
        ELSE LET chunk_data == ReadExact(r.file, r.chunks_offset + chunk_offset,
                                         chunk_size.val)
             IN  IF ~chunk_data.ok THEN WithIo(chunk_data, <<>>)
                 ELSE WithIo(IF r.compression_type = PASS_THROUGH
                             THEN Ok(chunk_data.val)
                             ELSE DecompressChunk(r, chunk_data.val, lz4_feature),
                             <<entry_idx>>)

\* the last chunk's limit taken to be the size of the whole index
LastChunkLimit_IndexSize(r, checks) ==
    Ok(r.forward_index_size)

\* the limit of the last chunk
LastChunkLimit(r, checks) ==
    USub(r.forward_index_size, r.chunks_offset - r.base_offset, checks)

\* get_bytes taking every value to run to the end of the chunk
GetBytesInChunk_ToChunkEnd(decompressed_chunk, num_docs_from_metadata, doc_id, chunk_doc_id_offset, checks) ==
    LET len == Len(decompressed_chunk)
        doc_index_in_chunk == doc_id - chunk_doc_id_offset
        value_offset == U32LeAt(decompressed_chunk, 4 + doc_index_in_chunk * 4)
    IN  IF len < 8 \/ doc_index_in_chunk < 0 \/ 8 + doc_index_in_chunk * 4 > len
             \/ value_offset > len
        THEN Err("InvalidFormat")
        ELSE Ok(SubSeq(decompressed_chunk, value_offset + 1, len))

\* get_bytes, from the decompressed regular chunk on (lines 187-262)
GetBytesInChunk(decompressed_chunk, num_docs_from_metadata, doc_id, chunk_doc_id_offset, checks) ==
    LET len == Len(decompressed_chunk) IN
    IF num_docs_from_metadata = 0 /\ len < 8 THEN Err("InvalidFormat")
    ELSE
    LET num_docs_in_chunk == IF num_docs_from_metadata = 0
                             THEN U32LeAt(decompressed_chunk, 0)
                             ELSE num_docs_from_metadata
        doc_index_in_chunk == USub(doc_id, chunk_doc_id_offset, checks)
    IN  IF ~doc_index_in_chunk.ok THEN doc_index_in_chunk
        ELSE IF doc_index_in_chunk.val >= num_docs_in_chunk THEN Err("InvalidFormat")
        ELSE
        LET offset_pos == 4 + doc_index_in_chunk.val * 4 IN
        IF offset_pos + 4 > len THEN Err("InvalidFormat")
        ELSE
        LET value_offset == U32LeAt(decompressed_chunk, offset_pos)
            last == doc_index_in_chunk.val = num_docs_in_chunk - 1
            next_offset_pos == offset_pos + 4
        IN  IF ~last /\ next_offset_pos + 4 > len THEN Err("InvalidFormat")
            ELSE
            LET next_offset == IF last THEN len
                               ELSE U32LeAt(decompressed_chunk, next_offset_pos)
            IN  IF value_offset > len \/ next_offset > len THEN Err("InvalidFormat")
                ELSE IF value_offset > next_offset THEN Err("Panic")
                ELSE Ok(SubSeq(decompressed_chunk, value_offset + 1, next_offset))

\* VarByteChunkReader::get_bytes, with the chunk reads it makes
GetBytesIo(r, doc_id, checks, lz4_feature) ==
    LET found == FindChunkMetadata(r, doc_id) IN
    IF ~found.ok THEN WithIo(found, <<>>)
    ELSE
    LET entry_idx == found.val
        entry_pos == r.metadata_offset + entry_idx * METADATA_ENTRY_SIZE
        entry == ReadExact(r.file, entry_pos, 8)
    IN  IF ~entry.ok THEN WithIo(entry, <<>>)
        ELSE
        LET chunk_doc_id_offset == EntryDocId(entry.val)
            chunk_offset == U32LeAt(entry.val, 4)
            is_regular_chunk == EntryIsRegular(entry.val)
            has_next == (entry_idx + 1) * METADATA_ENTRY_SIZE < r.metadata_size
            next_entry == IF has_next THEN ReadExact(r.file, entry_pos + 8, 8)
                          ELSE Ok(<<>>)
        IN  IF ~next_entry.ok THEN WithIo(next_entry, <<>>)
            ELSE
            LET last == ~has_next \/ EntryIsSentinel(next_entry.val)
                chunk_limit == IF last THEN LastChunkLimit(r, checks)
                               ELSE Ok(U32LeAt(next_entry.val, 4))
                num_docs == IF last THEN Ok(0)
                            ELSE USub(EntryDocId(next_entry.val),
                                      chunk_doc_id_offset, checks)
            IN  IF ~chunk_limit.ok THEN WithIo(chunk_limit, <<>>)
                ELSE IF ~num_docs.ok THEN WithIo(num_docs, <<>>)
                ELSE
                LET loaded == LoadChunk(r, entry_idx, chunk_limit.val, chunk_offset,
                                        checks, lz4_feature)
                IN  IF ~loaded.res.ok THEN loaded
                    ELSE IF ~is_regular_chunk THEN loaded
                    ELSE WithIo(GetBytesInChunk(loaded.res.val, num_docs.val, doc_id,
                                                chunk_doc_id_offset, checks),
                                loaded.io)

GetBytes(r, doc_id, checks, lz4_feature) == GetBytesIo(r, doc_id, checks, lz4_feature).res

\* VarByteChunkReader::get_string
GetString(r, doc_id, checks, lz4_feature) ==
    LET bytes == GetBytes(r, doc_id, checks, lz4_feature)
    IN  IF ~bytes.ok THEN bytes
        ELSE LET s == FromUtf8(bytes.val)
             IN  IF ~s.ok THEN Err("Parse") ELSE s

\* the inner loop of read_all_strings_chunked: the strings of one chunk
RECURSIVE ChunkStrings(_, _, _)
ChunkStrings(decompressed_chunk, num_docs_in_chunk, doc_idx) ==
    IF doc_idx >= num_docs_in_chunk THEN Ok(<<>>)
    ELSE
    LET len == Len(decompressed_chunk)
        offset_pos == 4 + doc_idx * 4
        last == doc_idx = num_docs_in_chunk - 1
    IN  IF offset_pos + 4 > len THEN Err("Panic")
        ELSE IF ~last /\ offset_pos + 8 > len THEN Err("Panic")
        ELSE
        LET value_offset == U32LeAt(decompressed_chunk, offset_pos)
            next_offset == IF last THEN len
                           ELSE U32LeAt(decompressed_chunk, offset_pos + 4)
        IN  IF value_offset > len \/ next_offset > len THEN Err("InvalidFormat")
            ELSE IF value_offset > next_offset THEN Err("Panic")
            ELSE LET rest == ChunkStrings(decompressed_chunk, num_docs_in_chunk,
                                          doc_idx + 1)
                 IN  IF ~rest.ok THEN rest
                     ELSE Ok(<<FromUtf8Lossy(SubSeq(decompressed_chunk,
                                                    value_offset + 1, next_offset))>>
                             \o rest.val)

\* the outer loop of read_all_strings_chunked, from metadata entry entry_idx on
RECURSIVE ReadChunksFrom(_, _, _, _)
ReadChunksFrom(r, entry_idx, checks, lz4_feature) ==
    IF entry_idx >= r.metadata_size \div METADATA_ENTRY_SIZE THEN WithIo(Ok(<<>>), <<>>)
    ELSE
    LET entry_pos == r.metadata_offset + entry_idx * METADATA_ENTRY_SIZE
        entry == ReadExact(r.file, entry_pos, 8)
    IN  IF ~entry.ok THEN WithIo(entry, <<>>)
        ELSE
        LET chunk_offset == U32LeAt(entry.val, 4)
            is_regular_chunk == EntryIsRegular(entry.val)
            has_next == (entry_idx + 1) * METADATA_ENTRY_SIZE < r.metadata_size
            next_entry == IF has_next THEN ReadExact(r.file, entry_pos + 8, 8)
                          ELSE Ok(<<>>)
        IN  IF ~next_entry.ok THEN WithIo(next_entry, <<>>)
            ELSE
            LET chunk_limit == IF ~has_next \/ EntryIsSentinel(next_entry.val)
                               THEN LastChunkLimit(r, checks)
                               ELSE Ok(U32LeAt(next_entry.val, 4))
            IN  IF ~chunk_limit.ok THEN WithIo(chunk_limit, <<>>)
                ELSE
                LET loaded == LoadChunk(r, entry_idx, chunk_limit.val, chunk_offset,
                                        checks, lz4_feature)
                    chunk == loaded.res.val
                    strings ==
                        IF ~is_regular_chunk THEN Ok(<<FromUtf8Lossy(chunk)>>)
                        ELSE IF Len(chunk) < 8 THEN Err("InvalidFormat")
                        ELSE ChunkStrings(chunk, U32LeAt(chunk, 0), 0)
                IN  IF ~loaded.res.ok THEN loaded
                    ELSE IF ~strings.ok THEN WithIo(strings, loaded.io)
                    ELSE LET rest == ReadChunksFrom(r, entry_idx + 1, checks, lz4_feature)
                         IN  WithIo(IF ~rest.res.ok THEN rest.res
                                    ELSE Ok(strings.val \o rest.res.val),
                                    loaded.io \o rest.io)

\* VarByteChunkReader::read_all_strings (= read_all_strings_chunked)
ReadAllStringsIo(r, checks, lz4_feature) == ReadChunksFrom(r, 0, checks, lz4_feature)
ReadAllStrings(r, checks, lz4_feature) == ReadAllStringsIo(r, checks, lz4_feature).res

\* VarByteChunkReader::read_all_bytes: get_bytes for each doc id in turn
RECURSIVE ReadAllBytesFrom(_, _, _, _)
ReadAllBytesFrom(r, doc_id, checks, lz4_feature) ==
    IF doc_id >= r.total_docs THEN WithIo(Ok(<<>>), <<>>)
    ELSE LET b == GetBytesIo(r, doc_id, checks, lz4_feature)
         IN  IF ~b.res.ok THEN b
             ELSE LET rest == ReadAllBytesFrom(r, doc_id + 1, checks, lz4_feature)
                  IN  WithIo(IF ~rest.res.ok THEN rest.res
                             ELSE Ok(<<b.res.val>> \o rest.res.val),
                             b.io \o rest.io)

ReadAllBytesIo(r, checks, lz4_feature) == ReadAllBytesFrom(r, 0, checks, lz4_feature)

-----------------------------------------------------------------------------
(* The var-byte V4 forward index as the writer lays it out (the layout the *)
(* comments of VarByteChunkReader::read and get_bytes describe).  A stored *)
(* index is [chunks, has_magic, sentinel, compression_type, damage]; a     *)
(* chunk is [huge, values, damage], its values byte strings.  A damage     *)
(* other than "none" is what a corrupted file holds in place of what the   *)
(* writer wrote: of a chunk, "no_offsets" (cut after the num_docs field),  *)
(* "short_offsets" (cut inside the offset array), "offset_beyond" (the     *)
(* first offset past the chunk's end), "descending" (the first offset      *)
(* above the second); of an index, "chunk_offset_beyond" (the last chunk's *)
(* chunk_offset past the chunks section) and "chunks_start_low" (a         *)
(* chunks_start_offset of 8).                                              *)

RECURSIVE ValueOffsets(_, _)
ValueOffsets(values, at) ==
    IF values = <<>> THEN <<>>
    ELSE LeBytes32(at) \o ValueOffsets(Tail(values), at + Len(Head(values)))

\* num_docs (LE), the offset array (LE), the values
ChunkPayload(chunk) ==
    LET written == IF chunk.huge THEN chunk.values[1]
                   ELSE LeBytes32(Len(chunk.values))
                            \o ValueOffsets(chunk.values, 4 + 4 * Len(chunk.values))
                            \o Concat(chunk.values)
    IN  CASE chunk.damage = "none" -> written
          [] chunk.damage = "no_offsets" -> SubSeq(written, 1, 4)
          [] chunk.damage = "short_offsets" -> SubSeq(written, 1, 8)
          [] chunk.damage = "offset_beyond" ->
                SubSeq(written, 1, 4) \o LeBytes32(Len(written) + 1)
                    \o SubSeq(written, 9, Len(written))
          [] chunk.damage = "descending" ->
                SubSeq(written, 1, 4) \o LeBytes32(Len(written))
                    \o SubSeq(written, 9, Len(written))

Lz4Literals(bytes) ==
    IF Len(bytes) <= 14 THEN <<16 * Len(bytes)>> \o bytes
    ELSE <<240, Len(bytes) - 15>> \o bytes

TARGET_CHUNK_SIZE == 64

StoredChunk(chunk, compression_type) ==
    IF compression_type = LZ4_LENGTH_PREFIXED
    THEN LeBytes32(Len(ChunkPayload(chunk))) \o Lz4Literals(ChunkPayload(chunk))
    ELSE IF compression_type = LZ4 THEN Lz4Literals(ChunkPayload(chunk))
    ELSE ChunkPayload(chunk)

ChunkDocs(chunk) == Len(chunk.values)

RECURSIVE DocsBefore(_, _)
DocsBefore(chunks, i) == IF i <= 1 THEN 0 ELSE DocsBefore(chunks, i - 1) + ChunkDocs(chunks[i - 1])
StoredDocs(chunks) == DocsBefore(chunks, Len(chunks) + 1)

RECURSIVE BytesBefore(_, _, _)
BytesBefore(chunks, compression_type, i) ==
    IF i <= 1 THEN 0
    ELSE BytesBefore(chunks, compression_type, i - 1)
            + Len(StoredChunk(chunks[i - 1], compression_type))

\* (doc_id_and_flag, chunk_offset), little-endian; the top bit flags a huge value
MetadataEntry(first_doc_id, huge, chunk_offset) ==
    LET d == LeBytes32(first_doc_id)
    IN  <<d[1], d[2], d[3], d[4] + (IF huge THEN 128 ELSE 0)>> \o LeBytes32(chunk_offset)

VarByteIndexBytes(fix) ==
    LET n == Len(fix.chunks)
        entries == n + (IF fix.sentinel THEN 1 ELSE 0)
    IN  (IF fix.has_magic THEN MAGIC_MARKER ELSE <<>>)
        \o BeBytes32(4) \o BeBytes32(TARGET_CHUNK_SIZE) \o BeBytes32(fix.compression_type)
        \o BeBytes32(IF fix.damage = "chunks_start_low" THEN 8
                     ELSE 16 + METADATA_ENTRY_SIZE * entries)
        \o Concat([i \in 1..n |->
                    MetadataEntry(DocsBefore(fix.chunks, i), fix.chunks[i].huge,
                                  IF fix.damage = "chunk_offset_beyond" /\ i = n
                                  THEN BytesBefore(fix.chunks, fix.compression_type, n + 1) + 1
                                  ELSE BytesBefore(fix.chunks, fix.compression_type, i))])
        \o (IF fix.sentinel
            THEN LeBytes32(StoredDocs(fix.chunks)) \o SENTINEL_BYTES ELSE <<>>)
        \o Concat([i \in 1..n |-> StoredChunk(fix.chunks[i], fix.compression_type)])

\* bounds and sample inputs of SpecVar
MaxChunks == 2
MaxChunkDocs == 2
VarValues == {<<104, 105>>, <<255>>}        \* "hi", and a byte that is no UTF-8
VarCompressionTypes == {PASS_THROUGH, SNAPPY, LZ4_LENGTH_PREFIXED}
UNKNOWN_COMPRESSION == 5
VarChunks ==
    {[huge |-> TRUE, values |-> <<v>>, damage |-> "none"] : v \in VarValues}
    \cup {[huge |-> FALSE, values |-> vs, damage |-> "none"] :
            vs \in (SeqsUpTo(VarValues, MaxChunkDocs) \ {<<>>})}
\* a regular chunk of the values "hi" and 0xFF, and what a corruption makes of it
SoundChunk == [huge |-> FALSE, values |-> <<<<104, 105>>, <<255>>>>, damage |-> "none"]
\* a chunk of num_docs 3: offsets [16, 18, 21], the values "hi", "abc", "xyz"
ThreeValueChunk ==
    [huge |-> FALSE, values |-> <<<<104, 105>>, <<97, 98, 99>>, <<120, 121, 122>>>>,
     damage |-> "none"]
DamagedChunks ==
    {[SoundChunk EXCEPT !.damage = d] :
        d \in {"no_offsets", "short_offsets", "offset_beyond", "descending"}}
VarFixes ==
    [chunks : SeqsUpTo(VarChunks, MaxChunks), has_magic : BOOLEAN,
     sentinel : BOOLEAN, compression_type : VarCompressionTypes, damage : {"none"}]
    \cup
    [chunks : SeqsUpTo(VarChunks, 1), has_magic : {FALSE},
     sentinel : BOOLEAN, compression_type : {ZSTANDARD, UNKNOWN_COMPRESSION},
     damage : {"none"}]
    \cup
    [chunks : {<<ThreeValueChunk>>, <<ThreeValueChunk, SoundChunk>>},
     has_magic : BOOLEAN, sentinel : BOOLEAN,
     compression_type : {PASS_THROUGH, LZ4_LENGTH_PREFIXED}, damage : {"none"}]
    \cup
    [chunks : UNION {{<<d>>, <<d, SoundChunk>>, <<SoundChunk, d>>} : d \in DamagedChunks},
     has_magic : {FALSE}, sentinel : BOOLEAN, compression_type : {PASS_THROUGH},
     damage : {"none"}]
    \cup
    [chunks : {<<SoundChunk>>, <<SoundChunk, SoundChunk>>},
     has_magic : {FALSE}, sentinel : BOOLEAN, compression_type : {PASS_THROUGH},
     damage : {"chunk_offset_beyond", "chunks_start_low"}]
\* the file starts with one byte that belongs to no index
FilePad == <<0>>

VarInit ==
    /\ vb_fix \in VarFixes
    /\ vb_file = FilePad \o VarByteIndexBytes(vb_fix)
    /\ \E extra \in {0, 1} :
          vb_loc = [start_offset |-> Len(FilePad),
                    size |-> Len(VarByteIndexBytes(vb_fix)),
                    total_docs |-> StoredDocs(vb_fix.chunks) + extra]
    /\ vb_reader = NoRet
    /\ vb_call = NoCall
    /\ vb_ret = NoRet
    /\ vb_io = <<>>

VarIdle ==
    /\ vb_fix = <<>> /\ vb_file = <<>> /\ vb_loc = <<>>
    /\ vb_reader = NoRet /\ vb_call = NoCall /\ vb_ret = NoRet /\ vb_io = <<>>

BuildInit == overflow_checks \in BOOLEAN /\ feature_lz4 \in BOOLEAN
BuildIdle == overflow_checks = FALSE /\ feature_lz4 = FALSE

VarByteReadCall ==
    /\ vb_reader = NoRet
    /\ vb_reader' = VarByteRead(vb_file, vb_loc.start_offset, vb_loc.size,
                                vb_loc.total_docs, overflow_checks)
    /\ UNCHANGED <<vb_fix, vb_file, vb_loc, vb_call, vb_ret, vb_io>>
    /\ VarFrame

\* The reader is immutable and every call opens the file afresh: a behaviour
\* makes one call on the reader.
VarCallFrame ==
    /\ vb_call = NoCall
    /\ UNCHANGED <<vb_fix, vb_file, vb_loc, vb_reader>>
    /\ VarFrame

GetBytesCall ==
    /\ vb_reader.ok
    /\ \E doc_id \in 0..vb_loc.total_docs :
        LET r == GetBytesIo(vb_reader.val, doc_id, overflow_checks, feature_lz4)
        IN  /\ vb_call' = [op |-> "get_bytes", doc_id |-> doc_id]
            /\ vb_ret' = r.res
            /\ vb_io' = r.io
    /\ VarCallFrame

GetStringCall ==
    /\ vb_reader.ok
    /\ \E doc_id \in 0..vb_loc.total_docs :
        /\ vb_call' = [op |-> "get_string", doc_id |-> doc_id]
        /\ vb_ret' = GetString(vb_reader.val, doc_id, overflow_checks, feature_lz4)
        /\ vb_io' = GetBytesIo(vb_reader.val, doc_id, overflow_checks, feature_lz4).io
    /\ VarCallFrame

ReadAllStringsCall ==
    /\ vb_reader.ok
    /\ LET r == ReadAllStringsIo(vb_reader.val, overflow_checks, feature_lz4)
       IN  /\ vb_call' = [op |-> "read_all_strings"]
           /\ vb_ret' = r.res
           /\ vb_io' = r.io
    /\ VarCallFrame

ReadAllBytesCall ==
    /\ vb_reader.ok
    /\ LET r == ReadAllBytesIo(vb_reader.val, overflow_checks, feature_lz4)
       IN  /\ vb_call' = [op |-> "read_all_bytes"]
           /\ vb_ret' = r.res
           /\ vb_io' = r.io
    /\ VarCallFrame

\* find_chunk_metadata on its own, for the doc ids of the index and one more
FindChunkMetadataCall ==
    /\ vb_reader.ok
    /\ \E doc_id \in 0..(StoredDocs(vb_fix.chunks) + 1) :
        /\ vb_call' = [op |-> "find_chunk_metadata", doc_id |-> doc_id]
        /\ vb_ret' = FindChunkMetadata(vb_reader.val, doc_id)
    /\ UNCHANGED vb_io
    /\ VarCallFrame

\* bounds and sample inputs of SpecFind: indexes of up to MaxFindChunks chunks of
\* one or two values, a huge value among them
MaxFindChunks == 4
FindChunks ==
    {[huge |-> TRUE, values |-> <<<<104, 105>>>>, damage |-> "none"],
     [huge |-> FALSE, values |-> <<<<104, 105>>>>, damage |-> "none"],
     [huge |-> FALSE, values |-> <<<<104, 105>>, <<104, 105>>>>, damage |-> "none"]}
FindFixes ==
    [chunks : SeqsUpTo(FindChunks, MaxFindChunks), has_magic : {FALSE},
     sentinel : BOOLEAN, compression_type : {PASS_THROUGH}, damage : {"none"}]

-----------------------------------------------------------------------------
(* SegmentReader (pinot-segment/src/segment_reader.rs)                     *)
(*                                                                         *)
(* A segment is [metadata, index_map, file]: metadata.columns maps the     *)
(* column names to their ColumnMetadata, index_map maps <<column,          *)
(* index_type>> to an IndexLocation, file is the bytes of columns.psf.     *)

\* SegmentMetadata::get_column
GetColumn(metadata, name) ==
    IF name \in DOMAIN metadata.columns THEN Ok(metadata.columns[name])
    ELSE Err("ColumnNotFound")

\* IndexMap::get_index
GetIndex(index_map, column, index_type) ==
    IF <<column, index_type>> \in DOMAIN index_map
    THEN Some(index_map[<<column, index_type>>])
    ELSE None
GetDictionary(index_map, column) == GetIndex(index_map, column, "dictionary")
GetForwardIndex(index_map, column) == GetIndex(index_map, column, "forward_index")

RECURSIVE LookupAll_SkipMissing(_, _, _)
LookupAll_SkipMissing(dictionary, variant, dict_ids) ==
    IF dict_ids = <<>> THEN Ok(<<>>)
    ELSE LET value == DictGet(dictionary, variant, Head(dict_ids))
             rest == LookupAll_SkipMissing(dictionary, variant, Tail(dict_ids))
         IN  IF value.some THEN Ok(<<value.val>> \o rest.val) ELSE rest
\* for dict_id in dict_ids { dictionary.get_X(dict_id).ok_or_else(InvalidFormat)? }
RECURSIVE LookupAll(_, _, _)
LookupAll(dictionary, variant, dict_ids) ==
    IF dict_ids = <<>> THEN Ok(<<>>)
    ELSE LET value == DictGet(dictionary, variant, Head(dict_ids))
         IN  IF ~value.some THEN Err("InvalidFormat")
             ELSE LET rest == LookupAll(dictionary, variant, Tail(dict_ids))
                  IN  IF ~rest.ok THEN rest
                      ELSE Ok(<<value.val>> \o rest.val)

\* The body the four typed reads and read_dict_encoded_string share: load the
\* dictionary, load the packed ids, look every id up
ReadDictEncoded(seg, column_name, col_meta, variant) ==
    LET dict_loc == GetDictionary(seg.index_map, column_name) IN
    IF ~dict_loc.some THEN Err("InvalidFormat")
    ELSE
    LET dictionary == DictionaryRead(seg.file, dict_loc.val.start_offset,
                                     col_meta.data_type, col_meta.cardinality,
                                     col_meta.length_of_each_entry)
    IN  IF ~dictionary.ok THEN dictionary
        ELSE
        LET fwd_loc == GetForwardIndex(seg.index_map, column_name) IN
        IF ~fwd_loc.some THEN Err("InvalidFormat")
        ELSE
        LET fixed_bit_reader == FixedBitRead(seg.file, fwd_loc.val.start_offset,
                                             fwd_loc.val.size,
                                             col_meta.bits_per_element,
                                             col_meta.total_docs)
        IN  IF ~fixed_bit_reader.ok THEN fixed_bit_reader
            ELSE
            LET dict_ids == ReadAll(fixed_bit_reader.val.buffer,
                                    fixed_bit_reader.val.bits_per_value,
                                    fixed_bit_reader.val.num_values)
            IN  IF ~dict_ids.ok THEN dict_ids
                ELSE LookupAll(dictionary.val, variant, dict_ids.val)

\* SegmentReader::read_raw_string
ReadRawString(seg, column_name, col_meta, checks, lz4_feature) ==
    LET fwd_loc == GetForwardIndex(seg.index_map, column_name) IN
    IF ~fwd_loc.some THEN Err("InvalidFormat")
    ELSE LET var_byte_reader == VarByteRead(seg.file, fwd_loc.val.start_offset,
                                            fwd_loc.val.size, col_meta.total_docs,
                                            checks)
         IN  IF ~var_byte_reader.ok THEN var_byte_reader
             ELSE ReadAllStrings(var_byte_reader.val, checks, lz4_feature)

ReadNumericColumn_DictFirst(seg, column_name, api_type) ==
    LET col_meta == GetColumn(seg.metadata, column_name) IN
    IF ~col_meta.ok THEN col_meta
    ELSE IF ~col_meta.val.has_dictionary THEN Err("UnsupportedFeature")
    ELSE IF col_meta.val.data_type # api_type THEN Err("InvalidFormat")
    ELSE ReadDictEncoded(seg, column_name, col_meta.val, api_type)
\* SegmentReader::read_int_column / read_long_column / read_float_column /
\* read_double_column: api_type is the type of the API called
ReadNumericColumn(seg, column_name, api_type) ==
    LET col_meta == GetColumn(seg.metadata, column_name) IN
    IF ~col_meta.ok THEN col_meta
    ELSE IF col_meta.val.data_type # api_type THEN Err("InvalidFormat")
    ELSE IF ~col_meta.val.has_dictionary THEN Err("UnsupportedFeature")
    ELSE ReadDictEncoded(seg, column_name, col_meta.val, api_type)

\* SegmentReader::read_string_column
ReadStringColumn(seg, column_name, checks, lz4_feature) ==
    LET col_meta == GetColumn(seg.metadata, column_name) IN
    IF ~col_meta.ok THEN col_meta
    ELSE IF col_meta.val.data_type # "String" THEN Err("InvalidFormat")
    ELSE IF col_meta.val.has_dictionary
         THEN ReadDictEncoded(seg, column_name, col_meta.val, "String")
         ELSE ReadRawString(seg, column_name, col_meta.val, checks, lz4_feature)

(* The segment as the writer lays it out: columns.psf holds the column's    *)
(* dictionary (the magic marker, then the entries in big-endian order) and  *)
(* its forward index (the magic marker, then the packed dictionary ids);    *)
(* a raw STRING column has a var-byte V4 forward index and no dictionary.   *)
(* A stored column is [data_type, has_dictionary, length_of_each_entry,     *)
(* cardinality, ids, damage, raw].                                          *)

\* bounds and sample inputs of SpecSeg
MaxCard == 3
MaxDocs == 2
IdBits == {2}
Damages == {"none", "bad_magic", "no_dictionary_entry", "no_forward_entry", "truncated"}
ColumnNames == {"a", "b"}          \* the segment has the column "a" only

\* entry k of the sample dictionary of a type: an i32 (negative too), the
\* big-endian bytes of an i64, f32 or f64, the characters of a string
SampleEntry(data_type, k) ==
    CASE data_type = "Int" -> 10 * k - 20
      [] data_type = "Long" -> <<255, 0, 0, 0, 0, 0, 0, k>>
      [] data_type = "Float" -> <<63, 128, 0, k>>
      [] data_type = "Double" -> <<64, 9, 33, 251, 84, 68, 45, k>>
      [] OTHER -> IF k % 2 = 0 THEN <<96 + k, 122>> ELSE <<96 + k>>

RECURSIVE Zeros(_)
Zeros(n) == IF n <= 0 THEN <<>> ELSE <<0>> \o Zeros(n - 1)

\* the bytes of one dictionary entry
EncodeEntry(data_type, value, length_of_each_entry) ==
    IF data_type = "Int" THEN BeBytes32(value)
    ELSE IF data_type \in {"Long", "Float", "Double"} THEN value
    ELSE IF length_of_each_entry > 0
    THEN value \o Zeros(length_of_each_entry - Len(value))
    ELSE BeBytes32(Len(value)) \o value

DictionaryBytes(fix) ==
    (IF fix.damage = "bad_magic" THEN <<0>> \o Tail(MAGIC_MARKER) ELSE MAGIC_MARKER)
    \o Concat([k \in 1..fix.cardinality |->
                EncodeEntry(fix.data_type, SampleEntry(fix.data_type, k),
                            fix.length_of_each_entry)])

ForwardIndexBytes(fix) ==
    IF fix.has_dictionary
    THEN MAGIC_MARKER \o PackBits(fix.ids, fix.bits_per_element)
    ELSE VarByteIndexBytes(fix.raw)

ColumnsPsf(fix) ==
    LET whole == FilePad
                    \o (IF fix.has_dictionary THEN DictionaryBytes(fix) ELSE <<>>)
                    \o ForwardIndexBytes(fix)
    IN  IF fix.damage = "truncated" THEN SubSeq(whole, 1, Len(whole) - 1) ELSE whole

FixTotalDocs(fix) ==
    IF fix.has_dictionary THEN Len(fix.ids) ELSE StoredDocs(fix.raw.chunks)

\* index_map: the IndexLocation of each index the column has
FixIndexMap(fix) ==
    LET dict_len == IF fix.has_dictionary THEN Len(DictionaryBytes(fix)) ELSE 0
        present == {t \in {"dictionary", "forward_index"} :
                        /\ t = "dictionary" => fix.has_dictionary
                        /\ t = "dictionary" => fix.damage # "no_dictionary_entry"
                        /\ t = "forward_index" => fix.damage # "no_forward_entry"}
    IN  [key \in {<<"a", t>> : t \in present} |->
            IF key[2] = "dictionary"
            THEN [start_offset |-> Len(FilePad), size |-> dict_len]
            ELSE [start_offset |-> Len(FilePad) + dict_len,
                  size |-> Len(ForwardIndexBytes(fix))]]

\* metadata.properties as SegmentMetadata::parse reads it
FixMetadata(fix) ==
    [total_docs |-> FixTotalDocs(fix),
     columns |-> [name \in {"a"} |->
        [name |-> name,
         data_type |-> fix.data_type,
         cardinality |-> fix.cardinality,
         total_docs |-> FixTotalDocs(fix),
         bits_per_element |-> fix.bits_per_element,
         has_dictionary |-> fix.has_dictionary,
         length_of_each_entry |-> fix.length_of_each_entry]]]

\* SegmentReader::open
SegmentOpen(fix) ==
    [metadata |-> FixMetadata(fix), index_map |-> FixIndexMap(fix),
     file |-> ColumnsPsf(fix)]

EmptyVar ==
    [chunks |-> <<>>, has_magic |-> FALSE, sentinel |-> FALSE,
     compression_type |-> PASS_THROUGH, damage |-> "none"]
\* the raw STRING columns: pass-through indexes of at most one chunk
RawVars ==
    [chunks : SeqsUpTo(VarChunks, 1), has_magic : {FALSE}, sentinel : {FALSE},
     compression_type : {PASS_THROUGH}, damage : {"none"}]

Ids(b) == UNION {[1..n -> 0..(Pow2(b) - 1)] : n \in 0..MaxDocs}
\* <<data type, lengthOfEachEntry>> of the dictionary-encoded columns
DictShapes ==
    {<<t, 0>> : t \in {"Int", "Long", "Float", "Double", "String"}} \cup {<<"String", 3>>}

DictFixesOf(b) ==
    {[data_type |-> sh[1], has_dictionary |-> TRUE, length_of_each_entry |-> sh[2],
      cardinality |-> c, bits_per_element |-> b, ids |-> ids, damage |-> d,
      raw |-> EmptyVar] :
        sh \in DictShapes, c \in 0..MaxCard, ids \in Ids(b), d \in Damages}

\* columns without a dictionary, and BYTES / BOOLEAN columns
PlainFixesOf(t) ==
    {[data_type |-> t, has_dictionary |-> h, length_of_each_entry |-> 0,
      cardinality |-> 0, bits_per_element |-> 0, ids |-> <<>>, damage |-> "none",
      raw |-> r] :
        h \in (IF t \in {"Bytes", "Boolean"} THEN BOOLEAN ELSE {FALSE}),
        r \in (IF t = "String" THEN RawVars ELSE {EmptyVar})}

SegFixes ==
    UNION {DictFixesOf(b) : b \in IdBits} \cup UNION {PlainFixesOf(t) : t \in DataTypes}

SegInit ==
    /\ sr_fix \in SegFixes
    /\ sr_seg = SegmentOpen(sr_fix)
    /\ sr_call = NoCall
    /\ sr_ret = NoRet

\* only the var-byte reader of a raw STRING column depends on the build
SegBuildInit ==
    IF sr_fix.data_type = "String" /\ ~sr_fix.has_dictionary THEN BuildInit ELSE BuildIdle

SegIdle == sr_fix = <<>> /\ sr_seg = <<>> /\ sr_call = NoCall /\ sr_ret = NoRet

\* The segment reader is immutable and every read opens columns.psf afresh:
\* a behaviour makes one typed read.
ReadIntColumnCall ==
    /\ sr_call = NoCall
    /\ \E column_name \in ColumnNames :
        /\ sr_call' = [op |-> "read_int_column", api_type |-> "Int", column_name |-> column_name]
        /\ sr_ret' = ReadNumericColumn(sr_seg, column_name, "Int")
    /\ UNCHANGED <<sr_fix, sr_seg>>
    /\ SegFrame

ReadLongColumnCall ==
    /\ sr_call = NoCall
    /\ \E column_name \in ColumnNames :
        /\ sr_call' = [op |-> "read_long_column", api_type |-> "Long", column_name |-> column_name]
        /\ sr_ret' = ReadNumericColumn(sr_seg, column_name, "Long")
    /\ UNCHANGED <<sr_fix, sr_seg>>
    /\ SegFrame

ReadFloatColumnCall ==
    /\ sr_call = NoCall
    /\ \E column_name \in ColumnNames :
        /\ sr_call' = [op |-> "read_float_column", api_type |-> "Float", column_name |-> column_name]
        /\ sr_ret' = ReadNumericColumn(sr_seg, column_name, "Float")
    /\ UNCHANGED <<sr_fix, sr_seg>>
    /\ SegFrame

ReadDoubleColumnCall ==
    /\ sr_call = NoCall
    /\ \E column_name \in ColumnNames :
        /\ sr_call' = [op |-> "read_double_column", api_type |-> "Double", column_name |-> column_name]
        /\ sr_ret' = ReadNumericColumn(sr_seg, column_name, "Double")
    /\ UNCHANGED <<sr_fix, sr_seg>>
    /\ SegFrame

ReadStringColumnCall ==
    /\ sr_call = NoCall
    /\ \E column_name \in ColumnNames :
        /\ sr_call' = [op |-> "read_string_column", api_type |-> "String", column_name |-> column_name]
        /\ sr_ret' = ReadStringColumn(sr_seg, column_name, overflow_checks, feature_lz4)
    /\ UNCHANGED <<sr_fix, sr_seg>>
    /\ SegFrame

\* DictionaryReader::read on the column's dictionary, as any of the data types
DictionaryReadCall ==
    /\ sr_call = NoCall
    /\ \E data_type \in DataTypes :
        /\ sr_call' = [op |-> "DictionaryReader::read", data_type |-> data_type]
        /\ sr_ret' = DictionaryRead(sr_seg.file,
                                    sr_seg.index_map[<<"a", "dictionary">>].start_offset,
                                    data_type, sr_fix.cardinality,
                                    sr_fix.length_of_each_entry)
    /\ UNCHANGED <<sr_fix, sr_seg>>
    /\ SegFrame

-----------------------------------------------------------------------------
(* PinotTable and PinotExec (datafusion-pinot/src/table.rs, schema.rs,     *)
(* exec.rs)                                                                *)
(*                                                                         *)
(* A segment is [total_docs, columns]; columns is the sequence of the      *)
(* segment's columns in the order its HashMap iterates them, a column is   *)
(* [name, data_type, read], read being what the SegmentReader's typed read *)
(* of the column returns: Ok(number of values) or an error.  Value i of a  *)
(* column is the value of document i, so a slice of a column is the        *)
(* interval [from, to) of the doc-ids it holds.                            *)

BATCH_SIZE == 8192

\* pinot_to_arrow_type
PinotToArrowType(pinot_type) ==
    CASE pinot_type = "Int" -> "Int32"
      [] pinot_type = "Long" -> "Int64"
      [] pinot_type = "Float" -> "Float32"
      [] pinot_type = "Double" -> "Float64"
      [] pinot_type = "String" -> "Utf8"
      [] pinot_type = "Bytes" -> "Binary"
      [] OTHER -> "Boolean"

\* create_arrow_schema: one field per column, in the map's iteration order
CreateArrowSchema(segment) ==
    [i \in DOMAIN segment.columns |->
        [name |-> segment.columns[i].name,
         data_type |-> PinotToArrowType(segment.columns[i].data_type)]]

\* create_projected_schema
CreateProjectedSchema(schema, projection) ==
    [i \in DOMAIN projection |-> schema[projection[i] + 1]]

\* PinotTable::open_segments; a path is [readable, error, segment], error the
\* kind SegmentReader::open fails with on an unreadable path
OpenSegments(segment_paths) ==
    IF segment_paths = <<>> THEN Err("Internal")
    ELSE IF \E i \in DOMAIN segment_paths : ~segment_paths[i].readable
    THEN Err("Internal")
    ELSE Ok([segments |-> [i \in DOMAIN segment_paths |-> segment_paths[i].segment],
             schema |-> CreateArrowSchema(segment_paths[1].segment)])

\* PinotExec::new, as TableProvider::scan calls it
PinotExecNew(segments, schema, projection) ==
    [segments |-> segments,
     schema |-> IF projection.some
                THEN CreateProjectedSchema(schema, projection.val) ELSE schema,
     projection |-> projection]

\* values.drain(offset..offset + limit), or values.drain(offset..) when the
\* column is shorter; a range that starts past the end panics
Drain(len, offset, limit) ==
    IF offset + limit <= len THEN Ok([from |-> offset, to |-> offset + limit])
    ELSE IF offset > len THEN Err("Panic")
    ELSE Ok([from |-> offset, to |-> len])

\* the column names of a batch: keys().nth(idx).unwrap() for each projected
\* index, or every key
ColumnNamesOf(segment, projection) ==
    IF ~projection.some THEN Ok([i \in DOMAIN segment.columns |-> segment.columns[i].name])
    ELSE IF \E i \in DOMAIN projection.val : projection.val[i] >= Len(segment.columns)
    THEN Err("Panic")
    ELSE Ok([i \in DOMAIN projection.val |-> segment.columns[projection.val[i] + 1].name])

ColumnNamed(segment, column_name) ==
    segment.columns[CHOOSE i \in DOMAIN segment.columns :
                        segment.columns[i].name = column_name]

\* the loop of create_batch over the column names: [res, reads], res the
\* arrays or the first error, reads the columns read on the way
RECURSIVE BatchArrays(_, _, _, _)
BatchArrays(segment, column_names, offset, limit) ==
    IF column_names = <<>> THEN [res |-> Ok(<<>>), reads |-> <<>>]
    ELSE
    LET col == ColumnNamed(segment, Head(column_names)) IN
    IF col.data_type \notin {"Int", "Long", "Float", "Double", "String"}
    THEN [res |-> Err("UnsupportedFeature"), reads |-> <<>>]
    ELSE IF ~col.read.ok THEN [res |-> Err("Internal"), reads |-> <<col.name>>]
    ELSE
    LET batch_values == Drain(col.read.val, offset, limit) IN
    IF ~batch_values.ok THEN [res |-> batch_values, reads |-> <<col.name>>]
    ELSE
    LET rest == BatchArrays(segment, Tail(column_names), offset, limit)
        array == [name |-> col.name, data_type |-> PinotToArrowType(col.data_type),
                  from |-> batch_values.val.from, to |-> batch_values.val.to]
    IN  [res |-> IF rest.res.ok THEN Ok(<<array>> \o rest.res.val) ELSE rest.res,
         reads |-> <<col.name>> \o rest.reads]

\* RecordBatch::try_new: as many arrays as fields, each of its field's type,
\* all of one length
RecordBatchTryNew(schema, arrays) ==
    IF /\ Len(arrays) = Len(schema)
       /\ \A i \in DOMAIN arrays : arrays[i].data_type = schema[i].data_type
       /\ \A i \in DOMAIN arrays : arrays[i].to - arrays[i].from
                                        = arrays[1].to - arrays[1].from
    THEN Ok([num_rows |-> arrays[1].to - arrays[1].from, columns |-> arrays])
    ELSE Err("Internal")

\* PinotExec::create_batch: [res, reads]
CreateBatch(segment, schema, projection, offset, limit) ==
    LET column_names == ColumnNamesOf(segment, projection) IN
    IF ~column_names.ok THEN [res |-> column_names, reads |-> <<>>]
    ELSE IF column_names.val = <<>>
    THEN [res |-> IF schema = <<>> THEN Ok([num_rows |-> limit, columns |-> <<>>])
                  ELSE Err("Internal"),
          reads |-> <<>>]
    ELSE LET arrays == BatchArrays(segment, column_names.val, offset, limit)
         IN  [res |-> IF arrays.res.ok THEN RecordBatchTryNew(schema, arrays.res.val)
                      ELSE arrays.res,
              reads |-> arrays.reads]

BatchLimit_Full(total_docs, offset) == BATCH_SIZE
\* let limit = BATCH_SIZE.min(total_docs - offset)
BatchLimit(total_docs, offset) == Min(BATCH_SIZE, total_docs - offset)

\* (0..total_docs).step_by(BATCH_SIZE).map(create_batch).collect(): the
\* batches from offset on, or the first error
RECURSIVE CollectBatches(_, _, _, _)
CollectBatches(segment, schema, projection, offset) ==
    IF offset >= segment.total_docs THEN [res |-> Ok(<<>>), reads |-> <<>>]
    ELSE
    LET batch == CreateBatch(segment, schema, projection, offset,
                             BatchLimit(segment.total_docs, offset))
    IN  IF ~batch.res.ok THEN batch
        ELSE LET rest == CollectBatches(segment, schema, projection, offset + BATCH_SIZE)
             IN  [res |-> IF rest.res.ok THEN Ok(<<batch.res.val>> \o rest.res.val)
                          ELSE rest.res,
                  reads |-> batch.reads \o rest.reads]

\* PinotExec::execute: [res, reads], res the PinotStream or the error
Execute(exec, partition) ==
    IF partition >= Len(exec.segments) THEN [res |-> Err("Execution"), reads |-> <<>>]
    ELSE LET batches == CollectBatches(exec.segments[partition + 1], exec.schema,
                                       exec.projection, 0)
         IN  [res |-> IF batches.res.ok
                      THEN Ok([batches |-> batches.res.val, index |-> 0])
                      ELSE batches.res,
              reads |-> batches.reads]

\* bounds and sample inputs of SpecScan
MaxBatches == 2
MaxExtraPolls == 2
\* A partition reads its own segment under the schema of the first segment:
\* a table of two segments has both kinds of partition
TableSizes == 0..2
\* no document, one, and a whole number of batches with and without one more
DocCounts ==
    {0, 1, MaxBatches * BATCH_SIZE}
        \cup {k * BATCH_SIZE + r : k \in 1..(MaxBatches - 1), r \in {0, 1}}

Column(name, data_type, read) == [name |-> name, data_type |-> data_type, read |-> read]

\* the column sets of the sample segments with n documents: dictionary-encoded
\* columns, which read as n values or fail, and a raw STRING column, whose
\* bulk read returns the values its index stores, which are n or fewer; the
\* sets of two columns come in both orders a HashMap may iterate them in
SegmentColumns(n) ==
    {<<Column("a", "Int", Ok(n))>>,
     <<Column("a", "Int", Ok(n)), Column("b", "String", Ok(n))>>,
     <<Column("b", "String", Ok(n)), Column("a", "Int", Ok(n))>>,
     <<Column("a", "Int", Ok(n)), Column("c", "Int", Ok(n))>>,
     <<Column("c", "Int", Ok(n)), Column("a", "Int", Ok(n))>>,
     <<Column("a", "Long", Ok(n))>>,
     <<Column("b", "String", Ok(Max(n - 1, 0)))>>,
     <<Column("a", "Int", Err("InvalidFormat"))>>}

ScanSegments ==
    UNION {{[total_docs |-> n, columns |-> cols] : cols \in SegmentColumns(n)} :
                n \in DocCounts}

ScanPaths ==
    {[readable |-> TRUE, error |-> "none", segment |-> seg] : seg \in ScanSegments}
        \cup {[readable |-> FALSE, error |-> kind,
               segment |-> [total_docs |-> 0, columns |-> <<>>]] :
                    kind \in {"Io", "Parse"}}

\* None, and Some of every list of distinct field indices
Projections(num_fields) ==
    {None} \cup
    {Some(proj) : proj \in
        {q \in UNION {[1..k -> 0..(num_fields - 1)] : k \in 0..num_fields} :
            \A i, j \in DOMAIN q : i # j => q[i] # q[j]}}

ScanInit ==
    /\ sc_paths \in UNION {[1..n -> ScanPaths] : n \in TableSizes}
    /\ sc_table = NoRet
    /\ sc_exec = NoRet
    /\ sc_part = -1
    /\ sc_stream = NoRet
    /\ sc_reads = <<>>
    /\ sc_out = <<>>

ScanIdle ==
    /\ sc_paths = <<>> /\ sc_table = NoRet /\ sc_exec = NoRet /\ sc_part = -1
    /\ sc_stream = NoRet /\ sc_reads = <<>> /\ sc_out = <<>>

OpenSegmentsCall ==
    /\ sc_table = NoRet
    /\ sc_table' = OpenSegments(sc_paths)
    /\ UNCHANGED <<sc_paths, sc_exec, sc_part, sc_stream, sc_reads, sc_out>>
    /\ ScanFrame

\* TableProvider::scan
ScanCall ==
    /\ sc_table.ok
    /\ sc_exec = NoRet
    /\ \E projection \in Projections(Len(sc_table.val.schema)) :
        sc_exec' = Ok(PinotExecNew(sc_table.val.segments, sc_table.val.schema,
                                   projection))
    /\ UNCHANGED <<sc_paths, sc_table, sc_part, sc_stream, sc_reads, sc_out>>
    /\ ScanFrame

\* The partitions share nothing that changes: a behaviour executes one.
ExecuteCall ==
    /\ sc_exec.ok
    /\ sc_part = -1
    /\ \E partition \in 0..Len(sc_exec.val.segments) :
        LET r == Execute(sc_exec.val, partition)
        IN  /\ sc_part' = partition
            /\ sc_stream' = r.res
            /\ sc_reads' = r.reads
    /\ UNCHANGED <<sc_paths, sc_table, sc_exec, sc_out>>
    /\ ScanFrame

\* PinotStream::poll_next
PollNextCall ==
    /\ sc_stream.ok
    /\ Len(sc_out) < Len(sc_stream.val.batches) + MaxExtraPolls
    /\ IF sc_stream.val.index < Len(sc_stream.val.batches)
       THEN /\ sc_out' = Append(sc_out, Some(sc_stream.val.batches[sc_stream.val.index + 1]))
            /\ sc_stream' = Ok([sc_stream.val EXCEPT !.index = @ + 1])
       ELSE /\ sc_out' = Append(sc_out, None)
            /\ UNCHANGED sc_stream
    /\ UNCHANGED <<sc_paths, sc_table, sc_exec, sc_part, sc_reads>>
    /\ ScanFrame

-----------------------------------------------------------------------------
(* Text.  A Rust &str is the sequence of its characters, each written as a *)
(* string.  In the sample files a run of letters that stands between       *)
(* separators, and that the parsers only compare as a whole                *)
(* ("forward_index", "startOffset"), is written as one element.            *)

\* char::is_whitespace, for the characters of the sample files
WHITESPACE == {" ", "\t", "\r", "\n"}

\* str::trim
Trim(s) ==
    LET solid == {i \in DOMAIN s : s[i] \notin WHITESPACE}
    IN  IF solid = {} THEN <<>>
        ELSE SubSeq(s, CHOOSE i \in solid : \A j \in solid : i <= j,
                       CHOOSE i \in solid : \A j \in solid : i >= j)

\* str::find(ch): the index of the first ch (from 0), or None
Find(s, ch) ==
    IF \A i \in DOMAIN s : s[i] # ch THEN None
    ELSE Some((CHOOSE i \in DOMAIN s : s[i] = ch /\ \A j \in 1..(i - 1) : s[j] # ch) - 1)

\* str::split(sep).collect(): the pieces between the separators, one piece
\* more than there are separators
RECURSIVE Split(_, _)
Split(s, sep) ==
    LET idx == Find(s, sep)
    IN  IF ~idx.some THEN <<s>>
        ELSE <<SubSeq(s, 1, idx.val)>> \o Split(SubSeq(s, idx.val + 2, Len(s)), sep)

\* [&str]::join(sep)
RECURSIVE Join(_, _)
Join(parts, sep) ==
    IF parts = <<>> THEN <<>>
    ELSE IF Len(parts) = 1 THEN parts[1]
    ELSE parts[1] \o <<sep>> \o Join(Tail(parts), sep)

\* str::lines: the pieces between line feeds, without the empty piece after
\* a final line feed, each without a final carriage return
Lines(content) ==
    LET pieces == Split(content, "\n")
        kept == IF pieces[Len(pieces)] = <<>>
                THEN SubSeq(pieces, 1, Len(pieces) - 1) ELSE pieces
    IN  [i \in DOMAIN kept |->
            IF kept[i] # <<>> /\ kept[i][Len(kept[i])] = "\r"
            THEN SubSeq(kept[i], 1, Len(kept[i]) - 1) ELSE kept[i]]

\* char::to_digit(radix): the digit's value, or -1
ToDigit(ch, radix) ==
    LET lower == <<"0", "1", "2", "3", "4", "5", "6", "7", "8", "9",
                   "a", "b", "c", "d", "e", "f">>
        upper == <<"0", "1", "2", "3", "4", "5", "6", "7", "8", "9",
                   "A", "B", "C", "D", "E", "F">>
    IN  IF \E i \in 1..radix : lower[i] = ch \/ upper[i] = ch
        THEN (CHOOSE i \in 1..radix : lower[i] = ch \/ upper[i] = ch) - 1
        ELSE -1

\* the number the digits write in the radix
RECURSIVE DigitsValue(_, _)
DigitsValue(digits, radix) ==
    IF digits = <<>> THEN 0
    ELSE DigitsValue(SubSeq(digits, 1, Len(digits) - 1), radix) * radix
            + ToDigit(digits[Len(digits)], radix)

\* uN::from_str_radix(s, radix), which str::parse::<uN> calls with radix 10:
\* an optional '+', then one digit or more, and a value below 2^bits.  The
\* numerals of the sample files have at most 7 digits, so that only the
\* parse of a u8 overflows.
FromStrRadix(s, radix, bits) ==
    LET digits == IF s # <<>> /\ s[1] = "+" THEN Tail(s) ELSE s
    IN  IF digits = <<>> \/ \E i \in DOMAIN digits : ToDigit(digits[i], radix) < 0
        THEN None
        ELSE IF bits < 31 /\ DigitsValue(digits, radix) >= Pow2(bits) THEN None
        ELSE Some(DigitsValue(digits, radix))

\* HashMap::insert
Insert(map, key, value) ==
    [k \in DOMAIN map \cup {key} |-> IF k = key THEN value ELSE map[k]]

\* HashMap::get
Get(map, key) == IF key \in DOMAIN map THEN Some(map[key]) ELSE None

-----------------------------------------------------------------------------
(* IndexMap (pinot-segment/src/index_map.rs)                               *)

SplitKey_LeftToRight(parts) ==
    [column_name |-> parts[1],
     index_type |-> parts[2],
     property |-> parts[Len(parts)]]
\* the parts of a key of three parts or more: the last is the property, the
\* one before it the index type, and the parts before, joined by '.', the
\* column name
SplitKey(parts) ==
    [column_name |-> Join(SubSeq(parts, 1, Len(parts) - 2), "."),
     index_type |-> parts[Len(parts) - 1],
     property |-> parts[Len(parts)]]

\* IndexMap::parse: the loop over the lines; indexes maps
\* <<column_name, index_type>> to [start_offset, size]
RECURSIVE IndexMapParseLines(_, _)
IndexMapParseLines(lines, indexes) ==
    IF lines = <<>> THEN Ok(indexes)
    ELSE
    LET line == Trim(Head(lines))
        eq_idx == Find(line, "=")
    IN  IF line = <<>> \/ line[1] = "#" \/ ~eq_idx.some
        THEN IndexMapParseLines(Tail(lines), indexes)
        ELSE
        LET key_part == Trim(SubSeq(line, 1, eq_idx.val))
            value == Trim(SubSeq(line, eq_idx.val + 2, Len(line)))
            parts == Split(key_part, ".")
        IN  IF Len(parts) < 3 THEN IndexMapParseLines(Tail(lines), indexes)
            ELSE
            LET property == SplitKey(parts).property
                value_num == FromStrRadix(value, 10, 64)
                key == <<SplitKey(parts).column_name, SplitKey(parts).index_type>>
                location == IF key \in DOMAIN indexes THEN indexes[key]
                            ELSE [start_offset |-> 0, size |-> 0]
            IN  IF ~value_num.some THEN Err("Parse")
                ELSE IndexMapParseLines(Tail(lines),
                        Insert(indexes, key,
                            CASE property = <<"startOffset">> ->
                                    [location EXCEPT !.start_offset = value_num.val]
                              [] property = <<"size">> ->
                                    [location EXCEPT !.size = value_num.val]
                              [] OTHER -> location))

\* IndexMap::parse
IndexMapParse(content) == IndexMapParseLines(Lines(content), <<>>)

-----------------------------------------------------------------------------
(* SegmentMetadata (pinot-segment/src/metadata.rs)                         *)

\* char::from_u32: no character for a surrogate (U+D800..U+DFFF) or a code
\* beyond U+10FFFF.  The characters outside the sample files' alphabet are
\* written "U+" and the decimal code.
CharFromU32(code) ==
    IF (code >= 55296 /\ code <= 57343) \/ code > 1114111 THEN None
    ELSE Some(CASE code = 9 -> "\t"
                [] code = 10 -> "\n"
                [] code = 13 -> "\r"
                [] code = 32 -> " "
                [] code = 44 -> ","
                [] code = 65 -> "A"
                [] code = 92 -> "\\"
                [] OTHER -> "U+" \o ToString(code))

\* SegmentMetadata::decode_java_string
RECURSIVE DecodeJavaString(_)
DecodeJavaString(s) ==
    IF s = <<>> THEN <<>>
    ELSE IF Head(s) # "\\" \/ Len(s) = 1 THEN <<Head(s)>> \o DecodeJavaString(Tail(s))
    ELSE IF s[2] = "u"
    THEN LET hex == SubSeq(s, 3, Min(Len(s), 6))
             code == FromStrRadix(hex, 16, 32)
             rest == DecodeJavaString(SubSeq(s, 3 + Len(hex), Len(s)))
         IN  IF code.some /\ CharFromU32(code.val).some
             THEN <<CharFromU32(code.val).val>> \o rest
             ELSE <<"\\", "u">> \o hex \o rest
    ELSE IF s[2] \in {"t", "n", "r", "\\"}
    THEN <<CASE s[2] = "t" -> "\t"
             [] s[2] = "n" -> "\n"
             [] s[2] = "r" -> "\r"
             [] OTHER -> "\\">> \o DecodeJavaString(SubSeq(s, 3, Len(s)))
    ELSE <<"\\">> \o DecodeJavaString(Tail(s))

\* SegmentMetadata::parse: the loop over the lines, which fills properties
RECURSIVE ParseProperties(_, _)
ParseProperties(lines, properties) ==
    IF lines = <<>> THEN properties
    ELSE
    LET line == Trim(Head(lines))
        idx == Find(line, "=")
    IN  IF line = <<>> \/ line[1] = "#" \/ ~idx.some
        THEN ParseProperties(Tail(lines), properties)
        ELSE ParseProperties(Tail(lines),
                Insert(properties, Trim(SubSeq(line, 1, idx.val)),
                       DecodeJavaString(Trim(SubSeq(line, idx.val + 2, Len(line))))))

DataTypeFromString_Lenient(s) ==
    CASE s = <<"INT">> -> Ok("Int")
      [] s = <<"LONG">> -> Ok("Long")
      [] s = <<"FLOAT">> -> Ok("Float")
      [] s = <<"DOUBLE">> -> Ok("Double")
      [] s = <<"BYTES">> -> Ok("Bytes")
      [] s = <<"BOOLEAN">> -> Ok("Boolean")
      [] OTHER -> Ok("String")
\* DataType::from_string
DataTypeFromString(s) ==
    CASE s = <<"INT">> -> Ok("Int")
      [] s = <<"LONG">> -> Ok("Long")
      [] s = <<"FLOAT">> -> Ok("Float")
      [] s = <<"DOUBLE">> -> Ok("Double")
      [] s = <<"STRING">> -> Ok("String")
      [] s = <<"BYTES">> -> Ok("Bytes")
      [] s = <<"BOOLEAN">> -> Ok("Boolean")
      [] OTHER -> Err("Parse")

\* get_prop(suffix).and_then(|s| s.parse::<uN>().ok()).unwrap_or(0)
ParseOrZero(prop, bits) ==
    IF prop.some /\ FromStrRadix(prop.val, 10, bits).some
    THEN FromStrRadix(prop.val, 10, bits).val ELSE 0

\* SegmentMetadata::parse_column_metadata
ParseColumnMetadata(name, properties, total_docs) ==
    LET get_prop(suffix) == Get(properties, <<"column", ".">> \o name \o <<".", suffix>>)
        data_type_str == get_prop("dataType")
    IN  IF ~data_type_str.some THEN Err("Parse")
        ELSE IF ~DataTypeFromString(data_type_str.val).ok
        THEN DataTypeFromString(data_type_str.val)
        ELSE Ok([name |-> name,
                 data_type |-> DataTypeFromString(data_type_str.val).val,
                 cardinality |-> ParseOrZero(get_prop("cardinality"), 32),
                 total_docs |-> total_docs,
                 bits_per_element |-> ParseOrZero(get_prop("bitsPerElement"), 8),
                 has_dictionary |-> get_prop("hasDictionary") = Some(<<"true">>),
                 is_sorted |-> get_prop("isSorted") = Some(<<"true">>),
                 length_of_each_entry |-> ParseOrZero(get_prop("lengthOfEachEntry"), 64)])

\* column_names.extend(list.split(',').map(|s| s.trim())) for the list of a
\* key, nothing when the key is absent
ColumnList(properties, key) ==
    IF ~Get(properties, key).some THEN <<>>
    ELSE LET pieces == Split(Get(properties, key).val, ",")
         IN  [i \in DOMAIN pieces |-> Trim(pieces[i])]

DiscoveredColumns_NoDatetime(properties) ==
    ColumnList(properties, <<"columns">>)
        \o ColumnList(properties, <<"segment", ".", "dimension", ".", "column", ".", "names">>)
        \o ColumnList(properties, <<"segment", ".", "metric", ".", "column", ".", "names">>)
\* SegmentMetadata::parse: column_names
DiscoveredColumns(properties) ==
    ColumnList(properties, <<"columns">>)
        \o ColumnList(properties, <<"segment", ".", "dimension", ".", "column", ".", "names">>)
        \o ColumnList(properties, <<"segment", ".", "metric", ".", "column", ".", "names">>)
        \o ColumnList(properties, <<"segment", ".", "datetime", ".", "column", ".", "names">>)

\* SegmentMetadata::parse: the loop over column_names, which fills columns
RECURSIVE ParseColumns(_, _, _, _)
ParseColumns(column_names, properties, total_docs, columns) ==
    IF column_names = <<>> THEN Ok(columns)
    ELSE IF Head(column_names) = <<>>
    THEN ParseColumns(Tail(column_names), properties, total_docs, columns)
    ELSE LET col_meta == ParseColumnMetadata(Head(column_names), properties, total_docs)
         IN  IF ~col_meta.ok THEN col_meta
             ELSE ParseColumns(Tail(column_names), properties, total_docs,
                               Insert(columns, Head(column_names), col_meta.val))

\* SegmentMetadata::parse
SegmentMetadataParse(content) ==
    LET properties == ParseProperties(Lines(content), <<>>)
        segment_name == Get(properties, <<"segment", ".", "name">>)
        table_name == Get(properties, <<"segment", ".", "table", ".", "name">>)
        total_docs_str == Get(properties, <<"segment", ".", "total", ".", "docs">>)
    IN  IF ~segment_name.some \/ ~table_name.some \/ ~total_docs_str.some
        THEN Err("Parse")
        ELSE
        LET total_docs == FromStrRadix(total_docs_str.val, 10, 32)
        IN  IF ~total_docs.some THEN Err("Parse")
            ELSE
            LET columns == ParseColumns(DiscoveredColumns(properties), properties,
                                        total_docs.val, <<>>)
            IN  IF ~columns.ok THEN columns
                ELSE Ok([segment_name |-> segment_name.val,
                         table_name |-> table_name.val,
                         total_docs |-> total_docs.val,
                         columns |-> columns.val])

-----------------------------------------------------------------------------
(* The properties files a segment writer produces, and the parsers' calls. *)

\* bounds and sample inputs of SpecProps
MaxLines == 2

\* the lines of an index_map file: entries "column.index_type.property = value"
\* for a plain column name and one with dots, a known index type, the two
\* known properties and another one, a number and something else; comments,
\* blank lines, a key of two parts and a line without '='
IndexMapLines ==
    [kind : {"entry"},
     column : {<<"a">>, <<"a", ".", "b", ".", "c">>},
     index_type : {"dictionary", "forward_index"},
     property : {"startOffset", "size", "version"},
     value : {<<"8">>, <<"1", "6">>, <<"x">>}]
        \cup {[kind |-> k] : k \in {"comment", "blank", "two_parts", "no_equals"}}

\* the text of a line of an index_map file
IndexMapLine(l) ==
    CASE l.kind = "entry" ->
            l.column \o <<".", l.index_type, ".", l.property, " ", "=", " ">> \o l.value
      [] l.kind = "comment" -> <<"#", "a", ".", "dictionary", ".", "size", "=", "8">>
      [] l.kind = "blank" -> <<" ">>
      [] l.kind = "two_parts" -> <<"a", ".", "size", "=", "8">>
      [] l.kind = "no_equals" -> <<"a", ".", "dictionary", ".", "size">>

\* the text of a file: every line ends with a line feed
FileText(lines) == Concat([i \in DOMAIN lines |-> lines[i] \o <<"\n">>])

\* the text of an index_map file
IndexMapText(lines) == FileText([i \in DOMAIN lines |-> IndexMapLine(lines[i])])

IndexMapFiles ==
    {[what |-> "index_map", lines |-> lines] : lines \in SeqsUpTo(IndexMapLines, MaxLines)}

\* the values of the lists of column names, with the names they list
ColumnLists ==
    {[text |-> <<"a">>, names |-> {<<"a">>}],
     [text |-> <<"a", ",", " ", "b">>, names |-> {<<"a">>, <<"b">>}],
     [text |-> <<"b", " ", ",", ",", "\t", "b">>, names |-> {<<"b">>}]}

\* metadata.properties files: one of the three segment keys may be missing,
\* segment.total.docs is a number or not, each of the four lists of column
\* names is absent or present, column a has a known data type, an unknown
\* one or none, and its other properties are well-formed, malformed or
\* absent; column b is a well-formed STRING column
MetadataFiles ==
    [what : {"metadata.properties"},
     missing : {"none", "segment.name", "segment.table.name", "segment.total.docs"},
     total_docs : {<<"7">>, <<"x">>, <<"-", "1">>},
     columns : {None} \cup {Some(l) : l \in {c \in ColumnLists : c.names = {<<"b">>}}},
     dimension : {None} \cup {Some(l) : l \in ColumnLists},
     metric : {None} \cup {Some(l) : l \in {c \in ColumnLists : c.names = {<<"b">>}}},
     datetime : {None} \cup {Some(l) : l \in {c \in ColumnLists : c.names = {<<"a">>}}},
     data_type : {"INT", "FOO", "absent"},
     numerics : {"good", "bad", "absent"}]

\* the lines of a metadata.properties file
MetadataLines(fix) ==
    LET line(key, value) == <<key \o <<" ", "=", " ">> \o value>>
        list(key, l) == IF l.some THEN line(key, l.val.text) ELSE <<>>
        a(suffix, good, bad) ==
            CASE fix.numerics = "good" -> line(<<"column", ".", "a", ".", suffix>>, good)
              [] fix.numerics = "bad" -> line(<<"column", ".", "a", ".", suffix>>, bad)
              [] OTHER -> <<>>
    IN  <<<<"#", "segment", " ", "metadata">>>>
        \o (IF fix.missing = "segment.name" THEN <<>>
            ELSE line(<<"segment", ".", "name">>, <<"seg">>))
        \o (IF fix.missing = "segment.table.name" THEN <<>>
            ELSE line(<<"segment", ".", "table", ".", "name">>, <<"tbl">>))
        \o (IF fix.missing = "segment.total.docs" THEN <<>>
            ELSE line(<<"segment", ".", "total", ".", "docs">>, fix.total_docs))
        \o list(<<"columns">>, fix.columns)
        \o list(<<"segment", ".", "dimension", ".", "column", ".", "names">>, fix.dimension)
        \o list(<<"segment", ".", "metric", ".", "column", ".", "names">>, fix.metric)
        \o list(<<"segment", ".", "datetime", ".", "column", ".", "names">>, fix.datetime)
        \o (IF fix.data_type = "absent" THEN <<>>
            ELSE line(<<"column", ".", "a", ".", "dataType">>, <<fix.data_type>>))
        \o a("cardinality", <<"3">>, <<"x">>)
        \o a("bitsPerElement", <<"2">>, <<"2", "5", "6">>)
        \o a("hasDictionary", <<"true">>, <<"yes">>)
        \o a("isSorted", <<"true">>, <<"TRUE">>)
        \o a("lengthOfEachEntry", <<"4">>, <<"-", "4">>)
        \o line(<<"column", ".", "b", ".", "dataType">>, <<"STRING">>)
        \o line(<<"column", ".", "b", ".", "cardinality">>, <<"5">>)
        \o line(<<"column", ".", "b", ".", "hasDictionary">>, <<"false">>)

MaxPieces == 2

\* the pieces of the property values given to decode_java_string: plain
\* text, \u with four hex digits (A, a tab, e acute, a surrogate), with fewer
\* than four characters, with a character that is no hex digit, and the
\* other escapes
EscapePieces ==
    {<<"a">>, <<"\\", "u", "0", "0", "4", "1">>, <<"\\", "u", "0", "0", "0", "9">>,
     <<"\\", "u", "0", "0", "E", "9">>, <<"\\", "u", "D", "8", "0", "0">>,
     <<"\\", "u", "4", "1">>, <<"\\", "u">>, <<"\\", "u", "0", "0", "g", "1">>,
     <<"\\", "u", "+", "0", "4", "1">>,
     <<"\\", "t">>, <<"\\", "n">>, <<"\\", "r">>, <<"\\", "\\">>, <<"\\", "x">>, <<"\\">>}

PropertyValues ==
    {[what |-> "property value", pieces |-> pieces] :
        pieces \in SeqsUpTo(EscapePieces, MaxPieces)}

\* the text the writer put in the file
WrittenText(fix) ==
    CASE fix.what = "index_map" -> IndexMapText(fix.lines)
      [] fix.what = "metadata.properties" -> FileText(MetadataLines(fix))
      [] fix.what = "property value" -> Concat(fix.pieces)

PropsIdle ==
    pf_fix = <<>> /\ pf_content = <<>> /\ pf_call = NoCall /\ pf_ret = NoRet

\* IndexMap::from_file on the index_map of a segment
IndexMapParseCall ==
    /\ pf_call = NoCall
    /\ pf_fix.what = "index_map"
    /\ pf_call' = [op |-> "IndexMap::parse"]
    /\ pf_ret' = IndexMapParse(pf_content)
    /\ UNCHANGED <<pf_fix, pf_content>>
    /\ PropsFrame

\* SegmentMetadata::from_file on the metadata.properties of a segment
SegmentMetadataParseCall ==
    /\ pf_call = NoCall
    /\ pf_fix.what = "metadata.properties"
    /\ pf_call' = [op |-> "SegmentMetadata::parse"]
    /\ pf_ret' = SegmentMetadataParse(pf_content)
    /\ UNCHANGED <<pf_fix, pf_content>>
    /\ PropsFrame

\* decode_java_string on the value of a line
DecodeJavaStringCall ==
    /\ pf_call = NoCall
    /\ pf_fix.what = "property value"
    /\ pf_call' = [op |-> "decode_java_string"]
    /\ pf_ret' = Ok(DecodeJavaString(pf_content))
    /\ UNCHANGED <<pf_fix, pf_content>>
    /\ PropsFrame

-----------------------------------------------------------------------------
(* FileSystemMetadataProvider (datafusion-pinot/src/metadata_provider.rs)  *)
(* and PinotSchemaProvider (datafusion-pinot/src/catalog.rs).  A directory *)
(* is [exists, entries], entries the file names in the order read_dir      *)
(* yields them, which is any order.  A name is the sequence of its         *)
(* characters, the suffixes written as one element.                        *)

\* str::ends_with
EndsWith(name, suffix) ==
    /\ Len(name) >= Len(suffix)
    /\ SubSeq(name, Len(name) - Len(suffix) + 1, Len(name)) = suffix

\* str::strip_suffix(suffix).unwrap()
StripSuffix(name, suffix) == SubSeq(name, 1, Len(name) - Len(suffix))

\* a < b for Strings: the order of the bytes, '_' before the lower-case letters
RECURSIVE StrLess(_, _)
StrLess(a, b) ==
    LET rank(ch) == CHOOSE i \in 1..5 :
                        <<"_OFFLINE", "_REALTIME", "a", "b", "c">>[i] = ch
    IN  IF b = <<>> THEN FALSE
        ELSE IF a = <<>> THEN TRUE
        ELSE IF Head(a) = Head(b) THEN StrLess(Tail(a), Tail(b))
        ELSE rank(Head(a)) < rank(Head(b))

\* Vec<String>::sort
RECURSIVE Sort(_)
Sort(v) ==
    IF v = <<>> THEN <<>>
    ELSE LET rest == Sort(Tail(v))
             k == Cardinality({i \in DOMAIN rest : StrLess(rest[i], Head(v))})
         IN  SubSeq(rest, 1, k) \o <<Head(v)>> \o SubSeq(rest, k + 1, Len(rest))

\* list_tables: the loop over the directory entries, which fills table_names
RECURSIVE ListTablesLoop(_, _)
ListTablesLoop(entries, table_names) ==
    IF entries = <<>> THEN table_names
    ELSE IF EndsWith(Head(entries), <<"_OFFLINE">>)
    THEN ListTablesLoop(Tail(entries),
            Append(table_names, StripSuffix(Head(entries), <<"_OFFLINE">>)))
    ELSE IF EndsWith(Head(entries), <<"_REALTIME">>)
    THEN ListTablesLoop(Tail(entries),
            IF \E i \in DOMAIN table_names :
                    table_names[i] = StripSuffix(Head(entries), <<"_REALTIME">>)
            THEN table_names
            ELSE Append(table_names, StripSuffix(Head(entries), <<"_REALTIME">>)))
    ELSE ListTablesLoop(Tail(entries), table_names)

\* FileSystemMetadataProvider::list_tables
ListTables(dir) ==
    IF ~dir.exists THEN Err("Internal")
    ELSE Ok(Sort(ListTablesLoop(dir.entries, <<>>)))

\* FileSystemMetadataProvider::table_exists
TableExists(dir, name) ==
    /\ dir.exists
    /\ \E i \in DOMAIN dir.entries :
        dir.entries[i] \in {name \o <<"_OFFLINE">>, name \o <<"_REALTIME">>}

(* Where a synchronous call is made from: "none", a thread no runtime has  *)
(* been entered on; "task", inside a task that a runtime is driving (the   *)
(* body of #[tokio::main] or #[tokio::test], a spawned task); "blocking",  *)
(* a thread that holds a runtime's handle without driving tasks            *)
(* (spawn_blocking, Runtime::enter).  Handle::try_current succeeds unless  *)
(* the context is "none".  Handle::block_on and Runtime::block_on run the  *)
(* future to completion on the calling thread and panic ("Cannot start a   *)
(* runtime from within a runtime") when that thread is driving tasks.      *)
BlockOn(context, output) == IF context = "task" THEN Err("Panic") ELSE Ok(output)

\* PinotSchemaProvider::table_names: block_on on the current handle, or on a
\* new Runtime when there is none, then unwrap_or_default
TableNames(dir, context) ==
    LET tables == IF context # "none" THEN BlockOn(context, ListTables(dir))
                  ELSE BlockOn("none", ListTables(dir))
    IN  IF ~tables.ok THEN tables
        ELSE Ok(IF tables.val.ok THEN tables.val.val ELSE <<>>)

\* PinotSchemaProvider::table_exist
TableExist(dir, name, context) ==
    IF context # "none" THEN BlockOn(context, TableExists(dir, name))
    ELSE BlockOn("none", TableExists(dir, name))

\* bounds and sample inputs of SpecCatalog
MaxEntries == 3
EntryNames ==
    {<<"a", "_OFFLINE">>, <<"a", "_REALTIME">>, <<"b", "_OFFLINE">>,
     <<"b", "_REALTIME">>, <<"c">>}
\* the directories of up to MaxEntries entries, in every order of enumeration
Directories ==
    {[exists |-> FALSE, entries |-> <<>>]} \cup
    {[exists |-> TRUE, entries |-> e] :
        e \in {s \in SeqsUpTo(EntryNames, MaxEntries) :
                    \A i, j \in DOMAIN s : i # j => s[i] # s[j]}}
Contexts == {"none", "task", "blocking"}

CatalogIdle == cat_dir = <<>> /\ cat_call = NoCall /\ cat_ret = NoRet

ListTablesCall ==
    /\ cat_call = NoCall
    /\ cat_call' = [op |-> "list_tables"]
    /\ cat_ret' = ListTables(cat_dir)
    /\ UNCHANGED cat_dir
    /\ CatalogFrame

TableExistsCall ==
    /\ cat_call = NoCall
    /\ \E name \in {<<"a">>, <<"c">>} :
        /\ cat_call' = [op |-> "table_exists", name |-> name]
        /\ cat_ret' = Ok(TableExists(cat_dir, name))
    /\ UNCHANGED cat_dir
    /\ CatalogFrame

TableNamesCall ==
    /\ cat_call = NoCall
    /\ \E context \in Contexts :
        /\ cat_call' = [op |-> "table_names", context |-> context]
        /\ cat_ret' = TableNames(cat_dir, context)
    /\ UNCHANGED cat_dir
    /\ CatalogFrame

TableExistCall ==
    /\ cat_call = NoCall
    /\ \E context \in Contexts, name \in {<<"a">>, <<"c">>} :
        /\ cat_call' = [op |-> "table_exist", context |-> context, name |-> name]
        /\ cat_ret' = TableExist(cat_dir, name, context)
    /\ UNCHANGED cat_dir
    /\ CatalogFrame

-----------------------------------------------------------------------------
(* PinotCatalogBuilder (datafusion-pinot/src/catalog.rs), built with the   *)
(* feature "controller".  source is None or Some of a PinotCatalogSource:  *)
(* [mode |-> "FileSystem", data_dir] or [mode |-> "Controller", base_url,  *)
(* segment_dir].  A URL or a path is a string, "" the empty one.           *)

FileSystemSource(data_dir) == [mode |-> "FileSystem", data_dir |-> data_dir]
ControllerSource(base_url, segment_dir) ==
    [mode |-> "Controller", base_url |-> base_url, segment_dir |-> segment_dir]

\* Error::Internal(message)
Internal(message) == [ok |-> FALSE, err |-> "Internal", message |-> message]

\* PinotCatalogBuilder::filesystem
Filesystem(source, data_dir) == Some(FileSystemSource(data_dir))

\* controller() starting from an empty segment_dir whatever the source was
Controller_Afresh(source, base_url) == Some(ControllerSource(base_url, ""))

\* PinotCatalogBuilder::controller
Controller(source, base_url) ==
    IF source.some /\ source.val.mode = "Controller"
    THEN Some(ControllerSource(base_url, source.val.segment_dir))
    ELSE Some(ControllerSource(base_url, ""))

\* PinotCatalogBuilder::with_segment_dir
WithSegmentDir(source, dir) ==
    IF source.some /\ source.val.mode = "Controller"
    THEN Some(ControllerSource(source.val.base_url, dir))
    ELSE Some(ControllerSource("", dir))

\* PinotCatalogBuilder::build; existing is the set of the paths that exist.
\* A success is the provider the catalog is made from.
Build(source, existing) ==
    IF ~source.some THEN Internal("No catalog source configured")
    ELSE IF source.val.mode = "FileSystem"
    THEN IF source.val.data_dir \notin existing
         THEN Internal("Data directory does not exist")
         ELSE Ok([provider |-> "FileSystemMetadataProvider",
                  data_dir |-> source.val.data_dir])
    ELSE IF source.val.base_url = "" THEN Internal("Controller URL not specified")
    ELSE IF source.val.segment_dir = "" THEN Internal("Segment directory not specified")
    ELSE IF source.val.segment_dir \notin existing
    THEN Internal("Segment directory does not exist")
    ELSE Ok([provider |-> "ControllerMetadataProvider",
             base_url |-> source.val.base_url,
             segment_dir |-> source.val.segment_dir])

\* bounds and sample inputs of SpecBuilder
MaxCalls == 3
Urls == {"", "http://localhost:9000"}
Dirs == {"", "/data", "/missing"}
ExistingDirs == {"/data"}

BuilderIdle == bd_source = <<>> /\ bd_calls = <<>> /\ bd_ret = NoRet

FilesystemCall ==
    /\ bd_ret = NoRet /\ Len(bd_calls) < MaxCalls
    /\ \E data_dir \in Dirs :
        /\ bd_source' = Filesystem(bd_source, data_dir)
        /\ bd_calls' = Append(bd_calls, [op |-> "filesystem", arg |-> data_dir])
    /\ UNCHANGED bd_ret
    /\ BuilderFrame

ControllerCall ==
    /\ bd_ret = NoRet /\ Len(bd_calls) < MaxCalls
    /\ \E base_url \in Urls :
        /\ bd_source' = Controller(bd_source, base_url)
        /\ bd_calls' = Append(bd_calls, [op |-> "controller", arg |-> base_url])
    /\ UNCHANGED bd_ret
    /\ BuilderFrame

WithSegmentDirCall ==
    /\ bd_ret = NoRet /\ Len(bd_calls) < MaxCalls
    /\ \E dir \in Dirs :
        /\ bd_source' = WithSegmentDir(bd_source, dir)
        /\ bd_calls' = Append(bd_calls, [op |-> "with_segment_dir", arg |-> dir])
    /\ UNCHANGED bd_ret
    /\ BuilderFrame

\* build(self) consumes the builder
BuildCall ==
    /\ bd_ret = NoRet
    /\ bd_ret' = Build(bd_source, ExistingDirs)
    /\ UNCHANGED <<bd_source, bd_calls>>
    /\ BuilderFrame

-----------------------------------------------------------------------------
(* The specifications: one per component, the other components idle.      *)

NextBits == GetDictIdCall \/ ReadAllCall

InitBits ==
    BitsInit /\ BuildIdle /\ VarIdle /\ SegIdle /\ ScanIdle /\ PropsIdle /\ CatalogIdle /\ BuilderIdle
SpecBits == InitBits /\ [][NextBits]_vars

NextVar ==
    \/ VarByteReadCall
    \/ GetBytesCall
    \/ GetStringCall
    \/ ReadAllStringsCall
    \/ ReadAllBytesCall

\* the build's lz4 feature is drawn for the LZ4 indexes, the only ones whose
\* decoding looks at it
InitVar ==
    VarInit /\ BuildInit
    /\ (feature_lz4 => vb_fix.compression_type \in {LZ4, LZ4_LENGTH_PREFIXED})
    /\ BitsIdle /\ SegIdle /\ ScanIdle /\ PropsIdle /\ CatalogIdle /\ BuilderIdle
SpecVar == InitVar /\ [][NextVar]_vars

NextSeg ==
    \/ ReadIntColumnCall
    \/ ReadLongColumnCall
    \/ ReadFloatColumnCall
    \/ ReadDoubleColumnCall
    \/ ReadStringColumnCall

InitSeg ==
    SegInit /\ SegBuildInit /\ BitsIdle /\ VarIdle /\ ScanIdle /\ PropsIdle /\ CatalogIdle /\ BuilderIdle
SpecSeg == InitSeg /\ [][NextSeg]_vars

\* the metadata search alone
NextFind ==
    \/ VarByteReadCall
    \/ FindChunkMetadataCall

InitFind ==
    /\ vb_fix \in FindFixes
    /\ vb_file = FilePad \o VarByteIndexBytes(vb_fix)
    /\ vb_loc = [start_offset |-> Len(FilePad),
                 size |-> Len(VarByteIndexBytes(vb_fix)),
                 total_docs |-> StoredDocs(vb_fix.chunks)]
    /\ vb_reader = NoRet
    /\ vb_call = NoCall
    /\ vb_ret = NoRet
    /\ vb_io = <<>>
    /\ BuildIdle /\ BitsIdle /\ SegIdle /\ ScanIdle /\ PropsIdle /\ CatalogIdle /\ BuilderIdle
SpecFind == InitFind /\ [][NextFind]_vars

\* the dictionary reader alone, on the segments that list a dictionary
NextDict == DictionaryReadCall

InitDict ==
    /\ SegInit
    /\ <<"a", "dictionary">> \in DOMAIN sr_seg.index_map
    /\ BuildIdle /\ BitsIdle /\ VarIdle /\ ScanIdle /\ PropsIdle /\ CatalogIdle /\ BuilderIdle
SpecDict == InitDict /\ [][NextDict]_vars

NextScan ==
    \/ OpenSegmentsCall
    \/ ScanCall
    \/ ExecuteCall
    \/ PollNextCall

InitScan ==
    ScanInit /\ BuildIdle /\ BitsIdle /\ VarIdle /\ SegIdle /\ PropsIdle /\ CatalogIdle /\ BuilderIdle
SpecScan == InitScan /\ [][NextScan]_vars

NextProps ==
    \/ IndexMapParseCall
    \/ SegmentMetadataParseCall
    \/ DecodeJavaStringCall

InitProps ==
    /\ pf_fix \in IndexMapFiles \cup MetadataFiles \cup PropertyValues
    /\ pf_content = WrittenText(pf_fix)
    /\ pf_call = NoCall
    /\ pf_ret = NoRet
    /\ BuildIdle /\ BitsIdle /\ VarIdle /\ SegIdle /\ ScanIdle /\ CatalogIdle /\ BuilderIdle
SpecProps == InitProps /\ [][NextProps]_vars

NextCatalog ==
    \/ ListTablesCall
    \/ TableExistsCall
    \/ TableNamesCall
    \/ TableExistCall

InitCatalog ==
    /\ cat_dir \in Directories
    /\ cat_call = NoCall
    /\ cat_ret = NoRet
    /\ BuildIdle /\ BitsIdle /\ VarIdle /\ SegIdle /\ ScanIdle /\ PropsIdle /\ BuilderIdle
SpecCatalog == InitCatalog /\ [][NextCatalog]_vars

NextBuilder ==
    \/ FilesystemCall
    \/ ControllerCall
    \/ WithSegmentDirCall
    \/ BuildCall

InitBuilder ==
    /\ bd_source = None
    /\ bd_calls = <<>>
    /\ bd_ret = NoRet
    /\ BuildIdle /\ BitsIdle /\ VarIdle /\ SegIdle /\ ScanIdle /\ PropsIdle /\ CatalogIdle
SpecBuilder == InitBuilder /\ [][NextBuilder]_vars

-----------------------------------------------------------------------------
(* What the packed format says a value is: bit p of the stream is bit      *)
(* 7 - p mod 8 of byte p div 8, and a value is the binary numeral of its   *)
(* bits, first bit most significant.                                       *)
StreamBit(buffer, p) == Shr(buffer[(p \div 8) + 1], 7 - (p % 8)) % 2

RECURSIVE StreamBits(_, _, _)
StreamBits(buffer, from, n) ==
    IF n = 0 THEN 0
    ELSE 2 * StreamBits(buffer, from, n - 1) + StreamBit(buffer, from + n - 1)

HoldsAll(buffer, b, m) == m * b <= 8 * Len(buffer)

\* C1: get_dict_id(i), i < M, on a buffer long enough for M values returns
\* the unsigned integer of bits [i*b, (i+1)*b) of the buffer, bit 0 the most
\* significant bit of byte 0; values packed MSB-first read back unchanged,
\* one by one and through read_all.
C1_BitExtraction ==
    /\ (fb_call.op = "get_dict_id" /\ fb_call.doc_id < fb_num
            /\ HoldsAll(fb_buffer, fb_bits, fb_num))
       => /\ fb_ret = Ok(StreamBits(fb_buffer, fb_call.doc_id * fb_bits, fb_bits))
          /\ fb_src = "packed" => fb_ret = Ok(fb_vals[fb_call.doc_id + 1])
    /\ (fb_call.op = "read_all" /\ fb_src = "packed") => fb_ret = Ok(fb_vals)

\* a 31-bit value that starts inside a byte and ends inside another was read
C1_Witness ==
    /\ fb_call.op = "get_dict_id" /\ fb_src = "packed"
    /\ fb_bits = 31 /\ fb_call.doc_id = 2 /\ fb_num = 3
    /\ fb_ret = Ok(Pow2(30))

-----------------------------------------------------------------------------
(* VarByteChunkReader: the bulk read against the per-document reads        *)

\* [get_string(i) for i in 0..total_docs], each call's own result
PerDocStrings(r) ==
    [i \in 1..r.total_docs |-> GetString(r, i - 1, overflow_checks, feature_lz4)]

\* C5: read_all_strings() returns what the per-document loop returns: the
\* total_docs strings get_string(i) returns, in order, when they all succeed,
\* and a failure when some get_string(i) fails.
C5_BulkEqualsPerDoc ==
    vb_call.op = "read_all_strings" =>
        LET per == PerDocStrings(vb_reader.val)
        IN  IF \A i \in DOMAIN per : per[i].ok
            THEN vb_ret = Ok([i \in DOMAIN per |-> per[i].val])
            ELSE ~vb_ret.ok

\* C6: a bulk read (read_all_strings, read_all_bytes) reads and decompresses
\* the chunks in metadata order, each at most once.
C6_EachChunkOnce ==
    vb_call.op \in {"read_all_strings", "read_all_bytes"} =>
        \A i, j \in DOMAIN vb_io : i < j => vb_io[i] < vb_io[j]

-----------------------------------------------------------------------------
(* SegmentReader: the typed column reads                                   *)

\* a typed read of the stored column by the API of the column's own type
ReadOfStoredColumn ==
    /\ sr_call # NoCall
    /\ sr_call.column_name = "a"
    /\ sr_call.api_type = sr_fix.data_type

\* what the writer stored for document i (from 1): the entry its id names
StoredValue(i) == SampleEntry(sr_fix.data_type, sr_fix.ids[i] + 1)

AllIdsInRange == \A i \in DOMAIN sr_fix.ids : sr_fix.ids[i] < sr_fix.cardinality

\* C2: a successful typed read of a dictionary-encoded column of the matching
\* type returns total_docs elements, element i being the dictionary entry at
\* the packed dictionary id of document i.
C2_DictColumnRead ==
    (ReadOfStoredColumn /\ sr_fix.has_dictionary /\ sr_ret.ok) =>
        /\ Len(sr_ret.val) = sr_seg.metadata.total_docs
        /\ Len(sr_ret.val) = Len(sr_fix.ids)
        /\ \A i \in DOMAIN sr_fix.ids : sr_ret.val[i] = StoredValue(i)

C2_Witness ==
    /\ ReadOfStoredColumn /\ sr_fix.has_dictionary /\ sr_ret.ok
    /\ sr_fix.data_type = "Int" /\ sr_fix.ids = <<2, 0>>
    /\ sr_ret.val = <<10, -10>>

\* C3: when some packed dictionary id is >= the number of dictionary entries
\* the typed read returns an error, InvalidFormat on an otherwise sound
\* segment, and never a vector; when every id is below the cardinality the
\* read of a sound segment succeeds.
C3_IdOutOfRange ==
    (ReadOfStoredColumn /\ sr_fix.has_dictionary) =>
        /\ ~AllIdsInRange => ~sr_ret.ok
        /\ (~AllIdsInRange /\ sr_fix.damage = "none") => sr_ret = Err("InvalidFormat")
        /\ (AllIdsInRange /\ sr_fix.damage = "none") => sr_ret.ok

C3_Witness ==
    /\ ReadOfStoredColumn /\ sr_fix.has_dictionary /\ sr_fix.damage = "none"
    /\ sr_fix.cardinality = 3 /\ sr_fix.ids = <<0, 3>>
    /\ sr_ret = Err("InvalidFormat")

\* C4: a typed read fails with ColumnNotFound when the column is absent,
\* otherwise with InvalidFormat when the column's type is not the API's,
\* otherwise (the four numeric reads) with UnsupportedFeature when the column
\* has no dictionary, whatever columns.psf holds; read_string_column of a
\* STRING column without dictionary reads the var-byte index instead.
C4_ErrorPrecedence ==
    sr_call # NoCall =>
        IF sr_call.column_name \notin DOMAIN sr_seg.metadata.columns
        THEN sr_ret = Err("ColumnNotFound")
        ELSE IF sr_call.api_type # sr_fix.data_type
        THEN sr_ret = Err("InvalidFormat")
        ELSE IF sr_fix.has_dictionary THEN TRUE
        ELSE IF sr_call.api_type # "String"
        THEN sr_ret = Err("UnsupportedFeature")
        ELSE /\ sr_ret # Err("UnsupportedFeature")
             /\ sr_ret.ok => Len(sr_ret.val) = StoredDocs(sr_fix.raw.chunks)

C4_Witness ==
    /\ sr_call # NoCall /\ sr_call.column_name = "a"
    /\ sr_call.api_type = "Int" /\ sr_fix.data_type = "Long" /\ ~sr_fix.has_dictionary
    /\ sr_ret = Err("InvalidFormat")

-----------------------------------------------------------------------------
(* PinotExec: the batches of a partition                                   *)

\* the segment of the executed partition, and its batches' doc-id ranges
ExecutedSegment == sc_exec.val.segments[sc_part + 1]
NumBatches(n) == (n + BATCH_SIZE - 1) \div BATCH_SIZE
SliceFrom(k) == (k - 1) * BATCH_SIZE
SliceTo(k, n) == Min(k * BATCH_SIZE, n)

\* the polls return the batches in order, then end-of-stream
DeliveredInOrder(batches) ==
    \A i \in DOMAIN sc_out :
        sc_out[i] = IF i <= Len(batches) THEN Some(batches[i]) ELSE None

\* C7: the stream of a partition over a segment of N documents holds
\* ceil(N / 8192) batches, batch k holding the rows [k*8192, min((k+1)*8192, N))
\* of every column (so no batch is empty and the row counts sum to N); the
\* polls return them in that order and end-of-stream afterwards.
C7_BatchSlices ==
    sc_stream.ok =>
        LET n == ExecutedSegment.total_docs
            batches == sc_stream.val.batches
        IN  /\ Len(batches) = NumBatches(n)
            /\ \A k \in DOMAIN batches :
                LET batch == batches[k]
                IN  /\ batch.num_rows = SliceTo(k, n) - SliceFrom(k)
                    /\ batch.num_rows > 0
                    /\ \A c \in DOMAIN batch.columns :
                        /\ batch.columns[c].from = SliceFrom(k)
                        /\ batch.columns[c].to = SliceTo(k, n)
            /\ SeqSum([k \in DOMAIN batches |-> batches[k].num_rows]) = n
            /\ DeliveredInOrder(batches)

\* C8: one execution of a partition reads no column twice.
C8_ColumnReadOnce ==
    \A i, j \in DOMAIN sc_reads : i # j => sc_reads[i] # sc_reads[j]

\* C9: under the empty projection Some([]) the execution of a partition
\* reads no column and yields ceil(N / 8192) batches without columns, batch k
\* of min(8192, N - k*8192) rows, which the polls return in order.
C9_EmptyProjection ==
    (sc_part >= 0 /\ sc_part < Len(sc_exec.val.segments)
            /\ sc_exec.val.projection = Some(<<>>)) =>
        LET n == ExecutedSegment.total_docs
        IN  /\ sc_reads = <<>>
            /\ sc_stream.ok
            /\ sc_stream.val.batches =
                    [k \in 1..NumBatches(n) |->
                        [num_rows |-> Min(BATCH_SIZE, n - SliceFrom(k)), columns |-> <<>>]]
            /\ DeliveredInOrder(sc_stream.val.batches)

C9_Witness ==
    /\ sc_stream.ok
    /\ sc_part = 1
    /\ sc_exec.val.projection = Some(<<>>)
    /\ ExecutedSegment.total_docs = BATCH_SIZE + 1
    /\ sc_out = <<Some([num_rows |-> BATCH_SIZE, columns |-> <<>>]),
                  Some([num_rows |-> 1, columns |-> <<>>]), None>>

\* the column names and types of a segment
SegmentFields(segment) ==
    {<<segment.columns[i].name, segment.columns[i].data_type>> :
        i \in DOMAIN segment.columns}

\* C10: open_segments succeeds only on segments whose schemas (column names
\* and types) are those of the first segment.
C10_SchemasIdentical ==
    sc_table.ok =>
        \A i \in DOMAIN sc_table.val.segments :
            SegmentFields(sc_table.val.segments[i])
                = SegmentFields(sc_table.val.segments[1])

\* the executed partition read a column whose read fails
ReadFailed ==
    /\ sc_part >= 0
    /\ sc_part < Len(sc_exec.val.segments)
    /\ \E i \in DOMAIN sc_reads : ~ColumnNamed(ExecutedSegment, sc_reads[i]).read.ok

\* C11: when the read of a projected column fails, the execution of the
\* partition returns an error and the consumer receives no batch; and every
\* batch of a stream has the rows asked for (min(8192, N - offset)) and one
\* column per field of the schema.
C11_NoPartialResults ==
    /\ ReadFailed => (~sc_stream.ok /\ sc_out = <<>>)
    /\ sc_stream.ok =>
        \A k \in DOMAIN sc_stream.val.batches :
            /\ sc_stream.val.batches[k].num_rows
                    = BatchLimit(ExecutedSegment.total_docs, SliceFrom(k))
            /\ Len(sc_stream.val.batches[k].columns) = Len(sc_exec.val.schema)

\* C12: an error of SegmentReader::open reaches the caller of open_segments
\* with its kind, and an error of a column read reaches the caller of execute
\* with its kind.
C12_ErrorKindPreserved ==
    /\ (sc_table # NoRet /\ \E i \in DOMAIN sc_paths : ~sc_paths[i].readable) =>
        LET first == CHOOSE i \in DOMAIN sc_paths :
                        /\ ~sc_paths[i].readable
                        /\ \A j \in 1..(i - 1) : sc_paths[j].readable
        IN  ~sc_table.ok /\ sc_table.err = sc_paths[first].error
    /\ ReadFailed =>
        LET failed == CHOOSE i \in DOMAIN sc_reads :
                        ~ColumnNamed(ExecutedSegment, sc_reads[i]).read.ok
        IN  ~sc_stream.ok
            /\ sc_stream.err = ColumnNamed(ExecutedSegment, sc_reads[failed]).read.err

-----------------------------------------------------------------------------
(* FixedBitWidthReader: the bounds checks                                  *)

\* the last bit of value i lies beyond the last byte of the buffer
BitsPastEnd(i) == (i + 1) * fb_bits > 8 * Len(fb_buffer)

\* C20: get_dict_id(i) returns InvalidFormat when i >= num_values or when the
\* bits [i*b, (i+1)*b) of the value reach past the end of the buffer (the
\* empty buffer included), and read_all returns InvalidFormat when that is so
\* for one of its indices.
C20_BoundsChecked ==
    /\ (fb_call.op = "get_dict_id"
            /\ (fb_call.doc_id >= fb_num \/ BitsPastEnd(fb_call.doc_id)))
       => fb_ret = Err("InvalidFormat")
    /\ (fb_call.op = "read_all" /\ \E i \in 0..(fb_num - 1) : BitsPastEnd(i))
       => fb_ret = Err("InvalidFormat")

\* a 12-bit value whose first byte is in the buffer and whose last is not
C20_Witness ==
    /\ fb_call.op = "get_dict_id" /\ fb_call.doc_id = 1 /\ fb_num = 3
    /\ fb_bits = 12 /\ Len(fb_buffer) = 2
    /\ fb_ret = Err("InvalidFormat")

-----------------------------------------------------------------------------
(* IndexMap::parse against the lines the writer put in the file            *)

\* the lines "column.index_type.property = value" of the file, by position
EntryLines == {i \in DOMAIN pf_fix.lines : pf_fix.lines[i].kind = "entry"}
\* the key a line is to be stored under
EntryKey(l) == <<l.column, <<l.index_type>>>>
\* the number a line's value writes
EntryNumber(l) == IF l.value = <<"8">> THEN 8 ELSE 16
\* the lines that set the property of the key, by position
Setting(key, property) ==
    {i \in EntryLines : /\ EntryKey(pf_fix.lines[i]) = key
                        /\ pf_fix.lines[i].property = property}
\* what the lines leave in the property of the key: the number of the last
\* line that sets it, and 0 when none does
LastSet(key, property) ==
    IF Setting(key, property) = {} THEN 0
    ELSE EntryNumber(pf_fix.lines[CHOOSE i \in Setting(key, property) :
                                        \A j \in Setting(key, property) : j <= i])

\* C15: a successful IndexMap::parse stores every line column.type.property
\* under the column name before the last two dots and the index type between
\* them, with the start_offset and size the lines give, and stores nothing
\* under any other key, also when the column name holds dots.
C15_RightToLeftKeys ==
    (pf_call.op = "IndexMap::parse" /\ pf_ret.ok) =>
        /\ \A i \in EntryLines :
            pf_fix.lines[i].property \in {"startOffset", "size"} =>
                /\ EntryKey(pf_fix.lines[i]) \in DOMAIN pf_ret.val
                /\ pf_ret.val[EntryKey(pf_fix.lines[i])] =
                        [start_offset |-> LastSet(EntryKey(pf_fix.lines[i]), "startOffset"),
                         size |-> LastSet(EntryKey(pf_fix.lines[i]), "size")]
        /\ \A key \in DOMAIN pf_ret.val :
            \E i \in EntryLines : EntryKey(pf_fix.lines[i]) = key

\* a.b.c.forward_index.startOffset = 16 and a.b.c.forward_index.size = 8
C15_Witness ==
    /\ pf_call.op = "IndexMap::parse"
    /\ Len(pf_fix.lines) = 2
    /\ pf_ret = Ok([key \in {<<<<"a", ".", "b", ".", "c">>, <<"forward_index">>>>} |->
                        [start_offset |-> 16, size |-> 8]])

\* the lines without line i
Without(lines, i) == SubSeq(lines, 1, i - 1) \o SubSeq(lines, i + 1, Len(lines))

\* C16: a line whose property is neither startOffset nor size changes
\* nothing: IndexMap::parse returns what it returns on the file without the
\* line (the same error, or the same keys with the same locations).
C16_UnknownPropertyIgnored ==
    pf_call.op = "IndexMap::parse" =>
        \A i \in EntryLines :
            pf_fix.lines[i].property \notin {"startOffset", "size"} =>
                pf_ret = IndexMapParse(IndexMapText(Without(pf_fix.lines, i)))

-----------------------------------------------------------------------------
(* SegmentMetadata::parse against the file the writer produced             *)

\* the column names the four lists of the file hold
ListedColumns ==
    UNION {l.val.names : l \in {k \in {pf_fix.columns, pf_fix.dimension,
                                       pf_fix.metric, pf_fix.datetime} : k.some}}

\* a required key is missing or unusable
RequiredKeyUnusable ==
    \/ pf_fix.missing # "none"
    \/ pf_fix.total_docs # <<"7">>
    \/ <<"a">> \in ListedColumns /\ pf_fix.data_type # "INT"

\* C17: SegmentMetadata::parse fails, with Parse, exactly when segment.name,
\* segment.table.name or segment.total.docs is missing, segment.total.docs is
\* no u32, or a listed column has no dataType or an unknown one; a column's
\* cardinality, bitsPerElement, hasDictionary, isSorted and lengthOfEachEntry
\* never fail the parse and read as 0 or false when absent or malformed.
C17_ParseFailsExactly ==
    pf_call.op = "SegmentMetadata::parse" =>
        /\ RequiredKeyUnusable => pf_ret = Err("Parse")
        /\ ~RequiredKeyUnusable => pf_ret.ok
        /\ (pf_ret.ok /\ <<"a">> \in ListedColumns) =>
            LET col == pf_ret.val.columns[<<"a">>]
                good == pf_fix.numerics = "good"
            IN  /\ col.cardinality = IF good THEN 3 ELSE 0
                /\ col.bits_per_element = IF good THEN 2 ELSE 0
                /\ col.has_dictionary = good
                /\ col.is_sorted = good
                /\ col.length_of_each_entry = IF good THEN 4 ELSE 0

\* a file whose column a has malformed numbers and flags was parsed
C17_Witness ==
    /\ pf_call.op = "SegmentMetadata::parse"
    /\ pf_fix.numerics = "bad"
    /\ pf_ret.ok
    /\ <<"a">> \in DOMAIN pf_ret.val.columns
    /\ pf_ret.val.columns[<<"a">>].bits_per_element = 0

\* C18: the columns of a parsed SegmentMetadata are the names the lists
\* columns, segment.dimension.column.names, segment.metric.column.names and
\* segment.datetime.column.names hold, trimmed, without the empty entries,
\* each once; every column carries its name and the segment's total_docs.
C18_ColumnsAreListedNames ==
    (pf_call.op = "SegmentMetadata::parse" /\ pf_ret.ok) =>
        /\ DOMAIN pf_ret.val.columns = ListedColumns
        /\ pf_ret.val.total_docs = 7
        /\ \A name \in DOMAIN pf_ret.val.columns :
            /\ pf_ret.val.columns[name].name = name
            /\ pf_ret.val.columns[name].total_docs = pf_ret.val.total_docs

\* b is listed twice, between blanks and an empty entry, and a by the
\* datetime list alone
C18_Witness ==
    /\ pf_call.op = "SegmentMetadata::parse"
    /\ pf_ret.ok
    /\ pf_fix.dimension = Some([text |-> <<"b", " ", ",", ",", "\t", "b">>,
                                names |-> {<<"b">>}])
    /\ pf_fix.datetime.some
    /\ DOMAIN pf_ret.val.columns = {<<"a">>, <<"b">>}

\* What a property value denotes: \u and four hex digits that name a
\* character are that character; \t, \n, \r and \\ are a tab, a line feed, a
\* carriage return and a backslash; everything else, a \u that no four hex
\* digits of a character follow included, stands for itself.
RECURSIVE Unescaped(_)
Unescaped(s) ==
    IF s = <<>> THEN <<>>
    ELSE IF /\ Len(s) >= 6 /\ s[1] = "\\" /\ s[2] = "u"
            /\ \A i \in 3..6 : ToDigit(s[i], 16) >= 0
            /\ CharFromU32(DigitsValue(SubSeq(s, 3, 6), 16)).some
    THEN <<CharFromU32(DigitsValue(SubSeq(s, 3, 6), 16)).val>>
            \o Unescaped(SubSeq(s, 7, Len(s)))
    ELSE IF Len(s) >= 2 /\ s[1] = "\\" /\ s[2] \in {"t", "n", "r", "\\"}
    THEN <<CASE s[2] = "t" -> "\t"
             [] s[2] = "n" -> "\n"
             [] s[2] = "r" -> "\r"
             [] OTHER -> "\\">> \o Unescaped(SubSeq(s, 3, Len(s)))
    ELSE <<Head(s)>> \o Unescaped(Tail(s))

\* C19: decode_java_string returns the value with every well-formed \uXXXX,
\* \t, \n, \r and \\ replaced by its character and every malformed \u
\* sequence (fewer than four characters after it, a character that is no hex
\* digit, the code of no character) left as it was written.
C19_DecodeJavaString ==
    pf_call.op = "decode_java_string" => pf_ret = Ok(Unescaped(pf_content))

-----------------------------------------------------------------------------
(* Table discovery                                                         *)

\* the names of the directory's tables: its entries X_OFFLINE and X_REALTIME
\* without the suffix
TablesOf(dir) ==
    {StripSuffix(dir.entries[i], <<"_OFFLINE">>) :
        i \in {j \in DOMAIN dir.entries : EndsWith(dir.entries[j], <<"_OFFLINE">>)}}
    \cup
    {StripSuffix(dir.entries[i], <<"_REALTIME">>) :
        i \in {j \in DOMAIN dir.entries : EndsWith(dir.entries[j], <<"_REALTIME">>)}}

\* C13: list_tables on a readable directory returns the names of its tables
\* in ascending order, each once, whatever the order of the entries: a table
\* with both an _OFFLINE and a _REALTIME entry is listed once.
C13_ListTablesSortedUnique ==
    (cat_call.op = "list_tables" /\ cat_dir.exists) =>
        /\ cat_ret.ok
        /\ {cat_ret.val[i] : i \in DOMAIN cat_ret.val} = TablesOf(cat_dir)
        /\ \A i, j \in DOMAIN cat_ret.val :
            i < j => StrLess(cat_ret.val[i], cat_ret.val[j])

\* C14: table_names and table_exist return to their caller: without a
\* runtime, and from inside a running runtime, where they neither block for
\* ever nor panic.
C14_SyncCallsReturn ==
    cat_call.op \in {"table_names", "table_exist"} => cat_ret.ok

-----------------------------------------------------------------------------
(* VarByteChunkReader: corrupted indexes                                   *)

\* the index or one of its chunks is corrupted
Corrupted ==
    \/ vb_fix.damage # "none"
    \/ \E i \in DOMAIN vb_fix.chunks : vb_fix.chunks[i].damage # "none"

\* the call reads the corruption: a bulk read does, and so does get_bytes
\* for the first document of a corrupted chunk or of a chunk with a corrupted
\* metadata entry, and every get_bytes when chunks_start_offset is below 16
ReadsCorruption ==
    \/ Corrupted /\ vb_call.op = "read_all_strings"
    \/ /\ vb_call.op = "get_bytes"
       /\ \/ vb_fix.damage = "chunks_start_low"
          \/ \E i \in DOMAIN vb_fix.chunks :
                /\ vb_call.doc_id = DocsBefore(vb_fix.chunks, i)
                /\ \/ vb_fix.chunks[i].damage # "none"
                   \/ vb_fix.damage = "chunk_offset_beyond" /\ i = Len(vb_fix.chunks)

\* C21: get_bytes and read_all_strings end in a value or a returned error,
\* never in a panic (an access out of bounds, an arithmetic underflow), and a
\* call that reads a corruption (a chunk too short for its num_docs field or
\* its offset array, an offset past the chunk's end, a descending offset
\* pair, a chunk_offset past the chunk limit, a chunks_start_offset below 16)
\* returns InvalidFormat, the bulk read as the per-document read.
C21_CorruptionIsInvalidFormat ==
    vb_call.op \in {"get_bytes", "read_all_strings"} =>
        /\ vb_ret.ok \/ vb_ret.err # "Panic"
        /\ ReadsCorruption => vb_ret = Err("InvalidFormat")

-----------------------------------------------------------------------------
(* VarByteChunkReader: the compression types                               *)

\* the values the writer stored, in document order
StoredValues(chunks) == Concat([i \in DOMAIN chunks |-> chunks[i].values])

\* the call comes to decode a chunk: the index holds one, and a per-document
\* call asks for a document the index holds
ReachesChunk ==
    /\ vb_fix.chunks # <<>>
    /\ vb_call.op \in {"get_bytes", "get_string"} =>
            vb_call.doc_id < StoredDocs(vb_fix.chunks)

\* C22 as stated: on a column of compression type 1 (Snappy) or 2 (Zstd)
\* every get_bytes, get_string and read_all_strings fails with
\* UnsupportedFeature; with a type outside 0..4 every one of them fails; with
\* type 0 the stored bytes are read unchanged.
C22_UnsupportedAlwaysFails ==
    vb_call.op \in {"get_bytes", "get_string", "read_all_strings"} =>
        /\ vb_fix.compression_type \in {SNAPPY, ZSTANDARD} =>
                vb_ret = Err("UnsupportedFeature")
        /\ vb_fix.compression_type \notin 0..4 => ~vb_ret.ok
        /\ (/\ vb_fix.compression_type = PASS_THROUGH /\ ~Corrupted
            /\ vb_call.op = "get_bytes"
            /\ vb_call.doc_id < StoredDocs(vb_fix.chunks)) =>
                vb_ret = Ok(StoredValues(vb_fix.chunks)[vb_call.doc_id + 1])

\* C22, amended: a column of compression type 1 or 2, or of a type outside
\* 0..4, never yields a value, and every get_bytes, get_string and
\* read_all_strings that comes to decode a chunk of it fails with
\* UnsupportedFeature; with type 0 get_bytes returns the stored bytes
\* unchanged.
C22_UnsupportedNeverYields ==
    vb_call.op \in {"get_bytes", "get_string", "read_all_strings"} =>
        /\ vb_fix.compression_type \in {SNAPPY, ZSTANDARD, UNKNOWN_COMPRESSION} =>
                /\ ReachesChunk => vb_ret = Err("UnsupportedFeature")
                /\ vb_ret.ok => vb_ret.val = <<>>
        /\ (/\ vb_fix.compression_type = PASS_THROUGH /\ ~Corrupted
            /\ vb_call.op = "get_bytes"
            /\ vb_call.doc_id < StoredDocs(vb_fix.chunks)) =>
                vb_ret = Ok(StoredValues(vb_fix.chunks)[vb_call.doc_id + 1])

\* a bulk read of a Zstd column with a chunk fails with UnsupportedFeature
C22_Witness ==
    /\ vb_call.op = "read_all_strings"
    /\ vb_fix.compression_type = ZSTANDARD
    /\ vb_fix.chunks # <<>>
    /\ vb_ret = Err("UnsupportedFeature")

-----------------------------------------------------------------------------
(* DictionaryReader: the magic marker                                      *)

\* the 8 bytes at the dictionary's offset in columns.psf
BytesAtDictionary ==
    SubSeq(sr_seg.file, sr_seg.index_map[<<"a", "dictionary">>].start_offset + 1,
           sr_seg.index_map[<<"a", "dictionary">>].start_offset + 8)

\* C23: DictionaryReader::read fails with InvalidFormat whenever the 8 bytes
\* at the dictionary's offset are not DE AD BE EF DE AF BE AD, whichever data
\* type it is called for and whatever follows the 8 bytes; after a valid
\* marker a Bytes or Boolean dictionary fails with UnsupportedFeature.
C23_MagicBeforeDispatch ==
    sr_call.op = "DictionaryReader::read" =>
        /\ BytesAtDictionary # <<222, 173, 190, 239, 222, 175, 190, 173>> =>
                sr_ret = Err("InvalidFormat")
        /\ (/\ BytesAtDictionary = <<222, 173, 190, 239, 222, 175, 190, 173>>
            /\ sr_call.data_type \in {"Bytes", "Boolean"}) =>
                sr_ret = Err("UnsupportedFeature")

\* a Boolean read of a dictionary with a wrong marker fails with InvalidFormat
C23_Witness ==
    /\ sr_call.op = "DictionaryReader::read"
    /\ sr_call.data_type = "Boolean"
    /\ sr_fix.damage = "bad_magic"
    /\ sr_ret = Err("InvalidFormat")

-----------------------------------------------------------------------------
(* PinotCatalogBuilder                                                     *)

\* the calls after the last filesystem() call, and the argument of the most
\* recent call of an operation among them ("" when there is none)
LastFilesystem ==
    IF \E i \in DOMAIN bd_calls : bd_calls[i].op = "filesystem"
    THEN CHOOSE i \in DOMAIN bd_calls :
            /\ bd_calls[i].op = "filesystem"
            /\ \A j \in DOMAIN bd_calls : bd_calls[j].op = "filesystem" => j <= i
    ELSE 0
Since(op) == {i \in DOMAIN bd_calls : i > LastFilesystem /\ bd_calls[i].op = op}
MostRecent(op) ==
    IF Since(op) = {} THEN ""
    ELSE bd_calls[CHOOSE i \in Since(op) : \A j \in Since(op) : j <= i].arg
ControllerMode == Since("controller") \cup Since("with_segment_dir") # {}

\* C24: build() without any call before it fails with 'No catalog source
\* configured'; controller(url) and with_segment_dir(dir) commute from every
\* configuration, and the configuration holds the most recent URL and the
\* most recent segment directory given since the last filesystem() call,
\* in whichever order they were given; a controller-mode build fails unless
\* both of them are non-empty.
C24_BuilderConfiguration ==
    /\ \A url \in Urls, dir \in Dirs :
        /\ WithSegmentDir(Controller(bd_source, url), dir)
                = Controller(WithSegmentDir(bd_source, dir), url)
        /\ WithSegmentDir(Controller(bd_source, url), dir)
                = Some(ControllerSource(url, dir))
    /\ ControllerMode =>
            bd_source = Some(ControllerSource(MostRecent("controller"),
                                              MostRecent("with_segment_dir")))
    /\ (bd_ret # NoRet /\ bd_calls = <<>>) =>
            bd_ret = Internal("No catalog source configured")
    /\ (bd_ret # NoRet /\ ControllerMode) =>
            (bd_ret.ok =>
                /\ MostRecent("controller") # ""
                /\ MostRecent("with_segment_dir") # "")

\* the segment directory given before the controller URL, after a
\* filesystem() call: the build succeeds in controller mode
C24_Witness ==
    /\ bd_calls = <<[op |-> "filesystem", arg |-> "/missing"],
                    [op |-> "with_segment_dir", arg |-> "/data"],
                    [op |-> "controller", arg |-> "http://localhost:9000"]>>
    /\ bd_ret = Ok([provider |-> "ControllerMetadataProvider",
                    base_url |-> "http://localhost:9000", segment_dir |-> "/data"])

-----------------------------------------------------------------------------
(* VarByteChunkReader: the search of the metadata                          *)

\* the first doc id of every metadata entry the writer stored, in order: the
\* chunks' and, where there is one, the sentinel entry's
FirstDocIds ==
    [i \in 1..Len(vb_fix.chunks) |-> DocsBefore(vb_fix.chunks, i)]
        \o (IF vb_fix.sentinel THEN <<StoredDocs(vb_fix.chunks)>> ELSE <<>>)

\* C25: on metadata entries with strictly increasing first doc ids from 0,
\* find_chunk_metadata(doc_id) returns the index of the greatest entry whose
\* first doc id, its flag bit masked, is <= doc_id; it returns for every
\* number of entries (index 0 when there is none).
C25_GreatestEntryAtOrBelow ==
    vb_call.op = "find_chunk_metadata" =>
        IF FirstDocIds = <<>> THEN vb_ret = Ok(0)
        ELSE \E i \in DOMAIN FirstDocIds :
                /\ vb_ret = Ok(i - 1)
                /\ FirstDocIds[i] <= vb_call.doc_id
                /\ \A j \in DOMAIN FirstDocIds :
                        FirstDocIds[j] <= vb_call.doc_id => j <= i

\* doc id 3 among four entries with the first doc ids 0, 1, 2, 4, the second
\* and fourth flagged as huge values: the third entry
C25_Witness ==
    /\ vb_call = [op |-> "find_chunk_metadata", doc_id |-> 3]
    /\ Len(vb_fix.chunks) = 4 /\ FirstDocIds = <<0, 1, 2, 4>>
    /\ vb_fix.chunks[2].huge /\ vb_fix.chunks[4].huge
    /\ vb_ret = Ok(2)

-----------------------------------------------------------------------------
(* VarByteChunkReader: the values of a chunk                               *)

\* the chunk (from 1) that holds the document, and the document's index in it
ChunkOf(doc_id) ==
    CHOOSE i \in DOMAIN vb_fix.chunks :
        /\ DocsBefore(vb_fix.chunks, i) <= doc_id
        /\ doc_id < DocsBefore(vb_fix.chunks, i + 1)
IndexInChunk(doc_id) == doc_id - DocsBefore(vb_fix.chunks, ChunkOf(doc_id))

\* the little-endian u32 at position pos of a chunk
FieldAt(chunk_bytes, pos) ==
    chunk_bytes[pos + 1] + 256 * chunk_bytes[pos + 2] + 65536 * chunk_bytes[pos + 3]
        + 16777216 * chunk_bytes[pos + 4]
\* offset[k] of a chunk: the k-th entry of the offset array after the num_docs
\* field, and the chunk's length for k = num_docs
OffsetOf(chunk_bytes, k) ==
    IF k = FieldAt(chunk_bytes, 0) THEN Len(chunk_bytes)
    ELSE FieldAt(chunk_bytes, 4 + 4 * k)

\* the index is sound and of a compression the build decodes, and the call
\* is get_bytes for a document the index holds
GetBytesOfStored ==
    /\ vb_call.op = "get_bytes"
    /\ ~Corrupted
    /\ \/ vb_fix.compression_type = PASS_THROUGH
       \/ vb_fix.compression_type = LZ4_LENGTH_PREFIXED /\ feature_lz4
    /\ vb_call.doc_id < StoredDocs(vb_fix.chunks)

-----------------------------------------------------------------------------
(* VarByteChunkReader: huge values and the sentinel entry                  *)

\* the index is sound and of a compression the build decodes
Decodable ==
    /\ ~Corrupted
    /\ \/ vb_fix.compression_type = PASS_THROUGH
       \/ vb_fix.compression_type = LZ4_LENGTH_PREFIXED /\ feature_lz4

HugeChunks == {i \in DOMAIN vb_fix.chunks : vb_fix.chunks[i].huge}

\* C27: a metadata entry with the top bit set is a chunk of one value:
\* get_bytes for its first doc id returns the whole decompressed chunk, the
\* bulk read returns one value for it (the same bytes as a string, at the
\* document's place), and the flag bit does not change the lookup: the chunk
\* get_bytes reads is the one that holds the document.
C27_HugeValueChunk ==
    /\ GetBytesOfStored => vb_io = <<ChunkOf(vb_call.doc_id) - 1>>
    /\ (GetBytesOfStored /\ ChunkOf(vb_call.doc_id) \in HugeChunks) =>
            vb_ret = Ok(ChunkPayload(vb_fix.chunks[ChunkOf(vb_call.doc_id)]))
    /\ (vb_call.op = "read_all_strings" /\ Decodable /\ HugeChunks # {}) =>
            /\ vb_ret.ok
            /\ Len(vb_ret.val) = StoredDocs(vb_fix.chunks)
            /\ \A i \in HugeChunks :
                    vb_ret.val[DocsBefore(vb_fix.chunks, i) + 1]
                        = FromUtf8Lossy(ChunkPayload(vb_fix.chunks[i]))

\* the reader of the same index written without the sentinel entry
ReaderWithoutSentinel ==
    LET bytes == VarByteIndexBytes([vb_fix EXCEPT !.sentinel = FALSE])
    IN  VarByteRead(FilePad \o bytes, Len(FilePad), Len(bytes), vb_loc.total_docs,
                    overflow_checks).val

\* C28: an index whose metadata ends with a sentinel entry decodes as the
\* same index without that entry: get_bytes for every document of the index
\* and read_all_strings return the same, and the sentinel entry is not read
\* as a chunk.
C28_SentinelAsAbsent ==
    (vb_fix.sentinel /\ ~Corrupted) =>
        /\ (vb_call.op = "get_bytes" /\ vb_call.doc_id < StoredDocs(vb_fix.chunks)) =>
                vb_ret = GetBytes(ReaderWithoutSentinel, vb_call.doc_id,
                                  overflow_checks, feature_lz4)
        /\ vb_call.op = "read_all_strings" =>
                vb_ret = ReadAllStrings(ReaderWithoutSentinel, overflow_checks,
                                        feature_lz4)
        /\ vb_call.op \in {"get_bytes", "read_all_strings"} =>
                \A i \in DOMAIN vb_io : vb_io[i] < Len(vb_fix.chunks)

-----------------------------------------------------------------------------
(* VarByteChunkReader: the sections of the index in the file               *)

\* file positions of the index at (start_offset, size): its header after the
\* optional magic marker, the header's chunks_start_offset field, the chunks
\* section, and the end of the index
HeaderStart == vb_loc.start_offset + (IF vb_fix.has_magic THEN 8 ELSE 0)
ChunksStartField ==
    16777216 * vb_file[HeaderStart + 13] + 65536 * vb_file[HeaderStart + 14]
        + 256 * vb_file[HeaderStart + 15] + vb_file[HeaderStart + 16]
ChunksSection == HeaderStart + ChunksStartField
IndexEnd == vb_loc.start_offset + vb_loc.size

\* chunk_offset[i] (i from 1) as the metadata entry holds it; for the entry
\* after the last chunk, the length of the chunks section
ChunkOffsetField(i) ==
    IF i > Len(vb_fix.chunks) THEN IndexEnd - ChunksSection
    ELSE FieldAt(vb_file, HeaderStart + 16 + METADATA_ENTRY_SIZE * (i - 1) + 4)

\* the bytes [chunk_offset[i], chunk_offset[i+1]) of the chunks section
ChunkRange(i) ==
    SubSeq(vb_file, ChunksSection + ChunkOffsetField(i) + 1,
           ChunksSection + ChunkOffsetField(i + 1))

\* C29: for an index at (offset, size), with or without the magic prefix, the
\* reader places the metadata right after the 16-byte header and counts
\* (chunks_start_offset - 16) / 8 entries in it; get_bytes reads chunk i from
\* the bytes [chunk_offset[i], chunk_offset[i+1]) of the chunks section, the
\* last chunk up to offset + size exactly: the value of a huge chunk is that
\* byte range, a value of a regular chunk is cut from it.  The ranges start
\* at the chunks section's first byte and leave no byte of it out.
C29_SectionsOfTheIndex ==
    ~Corrupted =>
        /\ vb_reader.ok =>
            /\ vb_reader.val.metadata_offset = HeaderStart + 16
            /\ vb_reader.val.metadata_size \div METADATA_ENTRY_SIZE
                    = (ChunksStartField - 16) \div METADATA_ENTRY_SIZE
            /\ (ChunksStartField - 16) \div METADATA_ENTRY_SIZE
                    = Len(vb_fix.chunks) + (IF vb_fix.sentinel THEN 1 ELSE 0)
            /\ vb_reader.val.chunks_offset = ChunksSection
        /\ (GetBytesOfStored /\ vb_fix.compression_type = PASS_THROUGH) =>
            LET i == ChunkOf(vb_call.doc_id)
                k == IndexInChunk(vb_call.doc_id)
            IN  /\ vb_io = <<i - 1>>
                /\ vb_ret = Ok(IF vb_fix.chunks[i].huge THEN ChunkRange(i)
                               ELSE SubSeq(ChunkRange(i),
                                           OffsetOf(ChunkRange(i), k) + 1,
                                           OffsetOf(ChunkRange(i), k + 1)))
        /\ vb_fix.chunks # <<>> =>
            /\ ChunkOffsetField(1) = 0
            /\ Concat([i \in DOMAIN vb_fix.chunks |-> ChunkRange(i)])
                    = SubSeq(vb_file, ChunksSection + 1, IndexEnd)

\* an index with the magic prefix, two chunks and a sentinel entry: the last
\* document is the huge value of the last chunk, read up to the index's end
C29_Witness ==
    /\ GetBytesOfStored /\ vb_fix.compression_type = PASS_THROUGH
    /\ vb_fix.has_magic /\ vb_fix.sentinel
    /\ Len(vb_fix.chunks) = 2 /\ vb_fix.chunks[2].huge /\ ~vb_fix.chunks[1].huge
    /\ vb_call.doc_id = StoredDocs(vb_fix.chunks) - 1
    /\ vb_reader.ok /\ vb_reader.val.metadata_offset = vb_loc.start_offset + 24
    /\ vb_ret = Ok(SubSeq(vb_file, Len(vb_file) - Len(vb_ret.val) + 1, Len(vb_file)))
    /\ vb_ret.val = vb_fix.chunks[2].values[1]

-----------------------------------------------------------------------------
(* PinotExec: the columns of a batch and the fields of the schema          *)

\* every segment of the table has the columns (names and types) of the first
IdenticalColumnSets ==
    \A i \in DOMAIN sc_table.val.segments :
        SegmentFields(sc_table.val.segments[i])
            = SegmentFields(sc_table.val.segments[1])

\* C30: in a scan of a table whose segments have identical column sets, the
\* array at every position of every batch of every partition is read from
\* the segment's column that has the name and the type of the schema's field
\* at that position (the field of the first segment's schema the projection
\* selects), whatever the order in which each segment's column map iterates.
C30_ArraysOfSchemaFields ==
    (sc_stream.ok /\ IdenticalColumnSets) =>
        \A k \in DOMAIN sc_stream.val.batches :
            LET columns == sc_stream.val.batches[k].columns
            IN  \A i \in DOMAIN columns :
                    /\ columns[i].name = sc_exec.val.schema[i].name
                    /\ columns[i].data_type = sc_exec.val.schema[i].data_type

=============================================================================
